---- MODULE Spec2Model ----
(***************************************************************************)
(* A model of the BEWallet core: the confidential-transaction builder     *)
(* (create_tx, sign_with_xprv) and the LiquiDEX maker/taker protocol      *)
(* (liquidex_blind, liquidex_unblind, verify_output_commitment,           *)
(* liquidex_take) of src/src/interface.rs and src/src/liquidex.rs.        *)
(*                                                                         *)
(* The helpers of transaction.rs (add_input, add_output, add_fee_output,  *)
(* scramble, estimated_fee, needs, changes, fee, DUST_VALUE) and of        *)
(* utils.rs (derive_blinder) are not among the source files; they are     *)
(* modelled from the specification (sections 4.3 and 4.4).                *)
(***************************************************************************)
EXTENDS Integers, Sequences, FiniteSets, TLC

VARIABLES store, call, probe

vars == <<store, call, probe>>

(***************************************************************************)
(* Bounds of the model.                                                    *)
(***************************************************************************)
MaxUtxos == 3
MaxAddressees == 2

(***************************************************************************)
(* Generic helpers.                                                        *)
(***************************************************************************)
RECURSIVE SumOver(_, _)
SumOver(S, f) ==
    IF S = {} THEN 0
    ELSE LET x == CHOOSE y \in S : TRUE IN f[x] + SumOver(S \ {x}, f)

\* The outcomes of a shuffle of n elements that the model draws: the n
\* rotations and the reversal.
Shuffles(n) ==
    {[i \in 1..n |-> ((i + k - 1) % n) + 1] : k \in 0..(n - 1)}
        \cup {[i \in 1..n |-> n + 1 - i]}

Permute(s, p) == [i \in 1..Len(s) |-> s[p[i]]]

(***************************************************************************)
(* Assets, network parameters, configuration.                              *)
(***************************************************************************)
Assets == {"LBTC", "USDT", "GOLD"}

\* self.config.policy_asset()
policy_asset == "LBTC"

\* The order of asset ids (the order of their bytes).
AssetRank == [a \in Assets |-> CASE a = "GOLD" -> 1 [] a = "LBTC" -> 2 [] a = "USDT" -> 3]

\* address_params(self.config.network()) of the wallet, and the other network.
address_params == "ELEMENTS"
OtherParams == "LIQUID"

(***************************************************************************)
(* Commitment primitives (secp256k1-zkp), in the generic-group reading:   *)
(* a group element is its vector of coefficients over the independent     *)
(* generators G and the asset tags T_a.  Scalars live in Z_Q, Q a prime   *)
(* above every amount of the model (as the group order is above 2^64).    *)
(***************************************************************************)
Q == 10007

\* secp256k1_zkp::Generator::new_blinded(secp, tag, bf) = T_asset + bf*G
new_blinded(asset, bf) == [tag |-> asset, g |-> bf % Q]

\* secp256k1_zkp::PedersenCommitment::new(secp, value, bf, generator)
\*   = value*generator + bf*G = value*T_asset + (value*generator.g + bf)*G
\* (a zero value leaves no tag component).
PedersenCommitment(value, bf, generator) ==
    [t |-> IF value % Q = 0 THEN <<>> ELSE <<generator.tag, value % Q>>,
     g |-> (value * generator.g + bf) % Q]

\* elements::confidential::{Asset, Value, Nonce}
Explicit(x) == [kind |-> "Explicit", v |-> x]
Confidential(c) == [kind |-> "Confidential", v |-> c]
Null == [kind |-> "Null", v |-> <<>>]

\* elements::TxOutSecrets
TxOutSecrets(asset, asset_bf, value, value_bf) ==
    [asset |-> asset, asset_bf |-> asset_bf, value |-> value, value_bf |-> value_bf]

(***************************************************************************)
(* Transaction primitives (transaction.rs, specification section 4.3).    *)
(***************************************************************************)
EmptyScript == <<>>

NewTx == [input |-> <<>>, output |-> <<>>]

NoWitness == [surjection_proof |-> FALSE, rangeproof |-> FALSE]

add_input(tx, outpoint) ==
    [tx EXCEPT !.input = Append(@, [previous_output |-> outpoint,
                                    script_sig |-> <<>>,
                                    witness |-> <<>>])]

\* An explicit output carrying the recipient's blinding pubkey in the nonce field.
add_output(tx, address, amount, asset) ==
    [tx EXCEPT !.output = Append(@, [asset |-> Explicit(asset),
                                     value |-> Explicit(amount),
                                     nonce |-> Confidential(address.blinding_pubkey),
                                     script_pubkey |-> address.script_pubkey,
                                     witness |-> NoWitness])]

\* The fee output of liquidex_take (TxOut { asset, value, ..Default::default() })
\* and of add_fee_output: explicit, empty script, null nonce.
FeeTxOut(fee_value, asset) ==
    [asset |-> Explicit(asset), value |-> Explicit(fee_value), nonce |-> Null,
     script_pubkey |-> EmptyScript, witness |-> NoWitness]

add_fee_output(tx, fee_value, asset) ==
    [tx EXCEPT !.output = Append(@, FeeTxOut(fee_value, asset))]

\* elements::TxOut::is_fee
is_fee(o) ==
    o.script_pubkey = EmptyScript /\ o.asset.kind = "Explicit" /\ o.value.kind = "Explicit"

\* scramble(tx): a shuffle of the inputs and a shuffle of the outputs.
scramble(tx) ==
    {[input |-> Permute(tx.input, p), output |-> Permute(tx.output, q)] :
        p \in Shuffles(Len(tx.input)), q \in Shuffles(Len(tx.output))}

(***************************************************************************)
(* HashMap<AssetId, u64>: a function whose domain is the set of keys      *)
(* that have an entry.                                                     *)
(***************************************************************************)
EmptyMap == [a \in {} |-> 0]

\* *map.entry(k).or_insert(0) += v
MapAdd(m, k, v) ==
    [a \in DOMAIN m \cup {k} |->
        (IF a \in DOMAIN m THEN m[a] ELSE 0) + (IF a = k THEN v ELSE 0)]

\* map.remove(k).unwrap_or(0) / map.get(k) with a default
MapGet(m, k) == IF k \in DOMAIN m THEN m[k] ELSE 0

(***************************************************************************)
(* Addresses (derive_address) and the store.                              *)
(***************************************************************************)
\* p2shwpkh_script of the key derived at path [chain, index]
p2shwpkh_script(path) == <<"p2shwpkh", "wallet", path[1], path[2]>>

\* public key of master_blinding.derive_blinding_key(script)
\* A public key is its parity prefix and its x coordinate; the x coordinate
\* is read as an AES-GCM-SIV ciphertext (key, nonce, text) by liquidex_unblind.
PublicKey(prefix, term) ==
    [prefix |-> prefix, x |-> [key |-> <<>>, nonce |-> <<>>, text |-> term]]

blinding_pubkey(script) == PublicKey(2, <<"blinding_pk", script>>)

derive_address(path) ==
    [params |-> address_params,
     script_pubkey |-> p2shwpkh_script(path),
     blinding_pubkey |-> blinding_pubkey(p2shwpkh_script(path))]

\* The outputs the wallet may own: asset, value and the index of the receive
\* address that was paid.  Two outputs may pay the same address.
DUST_VALUE == 4

UtxoTypes ==
    {[asset |-> "LBTC", value |-> 3,  addr |-> 1],
     [asset |-> "LBTC", value |-> 12, addr |-> 1],
     [asset |-> "LBTC", value |-> 17, addr |-> 1],
     [asset |-> "LBTC", value |-> 17, addr |-> 2],
     [asset |-> "USDT", value |-> 10, addr |-> 1],
     [asset |-> "GOLD", value |-> 10, addr |-> 2]}

\* An order on the types, used only to list each wallet content once.
TypeKey(t) == AssetRank[t.asset] * 1000 + t.value * 10 + t.addr

\* The blinding factors of the wallet's output number i (cache.unblinded).
UtxoAssetBf(i) == (7 * i + 3) % Q
UtxoValueBf(i) == (11 * i + 5) % Q

\* The outpoint of a LiquiDEX maker input that is not an output of this wallet.
ForeignOutPoint == 0

\* cache.unblinded.get(outpoint): the secrets of output i of the wallet
Unblinded(st, i) ==
    TxOutSecrets(st.txo[i].asset, UtxoAssetBf(i), st.txo[i].value, UtxoValueBf(i))

\* script_pubkey of the previous output of an outpoint of the wallet
ScriptOf(st, i) == p2shwpkh_script(<<0, st.txo[i].addr>>)

\* The receive addresses whose script the cache maps to a derivation path.
AddrIndexes == {t.addr : t \in UtxoTypes}

\* cache.paths.get(script_pubkey) of the previous output of outpoint i
HasPath(st, i) == st.txo[i].addr \in st.paths

\* WalletCtx::utxos: the unspent outputs with an unblinded record, without the
\* policy-asset outputs below DUST_VALUE.  The result is sorted by descending
\* value; outputs of equal value come in the order of a HashMap iteration.
utxos(st) ==
    {i \in DOMAIN st.txo :
        ~(st.txo[i].value < DUST_VALUE /\ st.txo[i].asset = policy_asset)}

(***************************************************************************)
(* Fee estimation (transaction.rs, specification section 4.4).            *)
(* Sizes are in bytes, fee rates in satoshi per 1000 bytes.               *)
(***************************************************************************)
TxOverheadSize == 12
InputSize == 10
OutputSize == 20
FeeOutputSize == 5

\* the 0.1 satoshi/byte of liquidex_take and the default of create_tx
DefaultFeeRate == 100

vsize(tx, more_changes) ==
    TxOverheadSize + InputSize * Len(tx.input)
        + OutputSize * (Len(tx.output) + more_changes) + FeeOutputSize

\* ceil(vsize * fee_rate)
estimated_fee(tx, fee_rate, more_changes) ==
    (vsize(tx, more_changes) * fee_rate + 999) \div 1000

(***************************************************************************)
(* Coin selection helpers of liquidex.rs.  Index 1 of the model is index 0 *)
(* of the code: the maker's input and the maker's output.                  *)
(***************************************************************************)
RECURSIVE outputs_upto(_, _, _)
outputs_upto(maker_output, tx, n) ==
    IF n = 0 THEN EmptyMap
    ELSE LET acc == outputs_upto(maker_output, tx, n - 1)
         IN  IF n = 1 THEN MapAdd(acc, maker_output.asset, maker_output.value)
             ELSE MapAdd(acc, tx.output[n].asset.v, tx.output[n].value.v)

\* fn outputs: the maker's declared output, then the explicit outputs
outputs(maker_output, tx) == outputs_upto(maker_output, tx, Len(tx.output))

RECURSIVE inputs_upto(_, _, _, _)
inputs_upto(maker_input, tx, st, n) ==
    IF n = 0 THEN EmptyMap
    ELSE LET acc == inputs_upto(maker_input, tx, st, n - 1)
         IN  IF n = 1 THEN MapAdd(acc, maker_input.asset, maker_input.value)
             ELSE LET u == Unblinded(st, tx.input[n].previous_output)
                  IN  MapAdd(acc, u.asset, u.value)

\* fn inputs: the maker's declared input, then the wallet's unblinded inputs
inputs(maker_input, tx, st) == inputs_upto(maker_input, tx, st, Len(tx.input))

liquidex_estimated_changes(maker_input, tx, st) ==
    Cardinality(DOMAIN inputs(maker_input, tx, st))

\* liquidex_needs without the estimated fee
liquidex_needs_without_fee(maker_input, maker_output, tx, fee_rate, policy, st) ==
    LET outs == outputs(maker_output, tx)
        ins == inputs(maker_input, tx, st)
    IN  [a \in {b \in DOMAIN outs : outs[b] > MapGet(ins, b)} |-> outs[a] - MapGet(ins, a)]

\* liquidex_needs with the fee estimated for a transaction without changes
liquidex_needs_fee_without_changes(maker_input, maker_output, tx, fee_rate, policy, st) ==
    LET fee_est == estimated_fee(tx, fee_rate, 0)
        outs == MapAdd(outputs(maker_output, tx), policy, fee_est)
        ins == inputs(maker_input, tx, st)
    IN  [a \in {b \in DOMAIN outs : outs[b] > MapGet(ins, b)} |-> outs[a] - MapGet(ins, a)]

\* The result is a Vec built by iterating a HashMap: the map from the assets
\* with a positive shortfall to the shortfall, in no particular order.
liquidex_needs(maker_input, maker_output, tx, fee_rate, policy, st) ==
    LET fee_est == estimated_fee(tx, fee_rate,
                                 liquidex_estimated_changes(maker_input, tx, st))
        outs == MapAdd(outputs(maker_output, tx), policy, fee_est)
        ins == inputs(maker_input, tx, st)
    IN  [a \in {b \in DOMAIN outs : outs[b] > MapGet(ins, b)} |-> outs[a] - MapGet(ins, a)]

\* liquidex_changes with the dust rule applied to every asset
liquidex_changes_dust_everywhere(maker_input, maker_output, tx, fee_est, policy, st) ==
    LET outs == outputs(maker_output, tx)
        ins == inputs(maker_input, tx, st)
        sum(a) == ins[a] - MapGet(outs, a) - (IF a = policy THEN fee_est ELSE 0)
        underflow == \E a \in DOMAIN ins :
                        \/ ins[a] < MapGet(outs, a)
                        \/ a = policy /\ ins[a] - MapGet(outs, a) < fee_est
    IN  IF underflow \/ ~(DOMAIN outs \subseteq DOMAIN ins)
        THEN [status |-> "panic", changes |-> EmptyMap]
        ELSE [status |-> "ok",
              changes |-> [a \in {b \in DOMAIN ins : sum(b) > DUST_VALUE} |-> sum(a)]]

\* status "panic": a u64 subtraction underflows or the final assert! fails.
liquidex_changes(maker_input, maker_output, tx, fee_est, policy, st) ==
    LET outs == outputs(maker_output, tx)
        ins == inputs(maker_input, tx, st)
        sum(a) == ins[a] - MapGet(outs, a) - (IF a = policy THEN fee_est ELSE 0)
        underflow == \E a \in DOMAIN ins :
                        \/ ins[a] < MapGet(outs, a)
                        \/ a = policy /\ ins[a] - MapGet(outs, a) < fee_est
        keep(a) == IF a = policy THEN sum(a) > DUST_VALUE ELSE sum(a) > 0
    IN  IF underflow \/ ~(DOMAIN outs \subseteq DOMAIN ins)
        THEN [status |-> "panic", changes |-> EmptyMap]
        ELSE [status |-> "ok",
              changes |-> [a \in {b \in DOMAIN ins : keep(b)} |-> sum(a)]]

\* liquidex_fee that leaves the taker's change outputs out of the outputs
liquidex_fee_without_changes(maker_input, maker_output, tx, policy, st) ==
    LET outs == outputs(maker_output, [tx EXCEPT !.output = SubSeq(@, 1, 2)])
        ins == inputs(maker_input, tx, st)
    IN  IF \/ \E n \in DOMAIN tx.output : is_fee(tx.output[n])
           \/ policy \notin DOMAIN ins
           \/ policy \notin DOMAIN outs
        THEN [status |-> "panic", fee |-> 0]
        ELSE IF ins[policy] < outs[policy]
             THEN [status |-> "panic", fee |-> 0]
             ELSE [status |-> "ok", fee |-> ins[policy] - outs[policy]]

\* status "panic": the assert!, an unwrap of None or a u64 underflow.
liquidex_fee(maker_input, maker_output, tx, policy, st) ==
    LET outs == outputs(maker_output, tx)
        ins == inputs(maker_input, tx, st)
    IN  IF \/ \E n \in DOMAIN tx.output : is_fee(tx.output[n])
           \/ policy \notin DOMAIN ins
           \/ policy \notin DOMAIN outs
        THEN [status |-> "panic", fee |-> 0]
        ELSE IF ins[policy] < outs[policy]
             THEN [status |-> "panic", fee |-> 0]
             ELSE [status |-> "ok", fee |-> ins[policy] - outs[policy]]

(***************************************************************************)
(* Coin selection helpers of transaction.rs (specification section 4.4).  *)
(***************************************************************************)
RECURSIVE tx_outputs_upto(_, _)
tx_outputs_upto(tx, n) ==
    IF n = 0 THEN EmptyMap
    ELSE MapAdd(tx_outputs_upto(tx, n - 1), tx.output[n].asset.v, tx.output[n].value.v)

\* the required (explicit, non-fee) outputs per asset
tx_outputs(tx) == tx_outputs_upto(tx, Len(tx.output))

RECURSIVE tx_inputs_upto(_, _, _)
tx_inputs_upto(tx, st, n) ==
    IF n = 0 THEN EmptyMap
    ELSE LET u == Unblinded(st, tx.input[n].previous_output)
         IN  MapAdd(tx_inputs_upto(tx, st, n - 1), u.asset, u.value)

\* the unblinded input values per asset
tx_inputs(tx, st) == tx_inputs_upto(tx, st, Len(tx.input))

estimated_changes(tx, st) == Cardinality(DOMAIN tx_inputs(tx, st))

\* The assets of S as a sequence in which the policy asset comes first and
\* the others follow by descending rank, so that pop() serves the policy
\* asset last.
RECURSIVE SortedNeeds(_, _)
SortedNeeds(S, policy) ==
    IF S = {} THEN <<>>
    ELSE LET first == IF policy \in S THEN policy
                      ELSE CHOOSE a \in S : \A b \in S : AssetRank[b] <= AssetRank[a]
         IN  <<first>> \o SortedNeeds(S \ {first}, policy)

\* needs: the positive residuals, as a sequence of <<asset, amount>>
needs(tx, fee_rate, policy, st) ==
    LET fee_est == estimated_fee(tx, fee_rate, estimated_changes(tx, st))
        outs == MapAdd(tx_outputs(tx), policy, fee_est)
        ins == tx_inputs(tx, st)
        short == {a \in DOMAIN outs : outs[a] > MapGet(ins, a)}
        order == SortedNeeds(short, policy)
    IN  [k \in 1..Len(order) |-> <<order[k], outs[order[k]] - MapGet(ins, order[k])>>]

\* changes with a change output for every input asset, of zero value too
changes_always(tx, fee_est, policy, st) ==
    LET outs == tx_outputs(tx)
        ins == tx_inputs(tx, st)
        sum(a) == ins[a] - MapGet(outs, a) - (IF a = policy THEN fee_est ELSE 0)
    IN  [a \in {b \in DOMAIN ins : sum(b) >= 0} |-> sum(a)]

\* changes: the residual of every input asset, the policy asset's only
\* above DUST_VALUE
changes(tx, fee_est, policy, st) ==
    LET outs == tx_outputs(tx)
        ins == tx_inputs(tx, st)
        sum(a) == ins[a] - MapGet(outs, a) - (IF a = policy THEN fee_est ELSE 0)
        keep(a) == IF a = policy THEN sum(a) > DUST_VALUE ELSE sum(a) > 0
    IN  [a \in {b \in DOMAIN ins : keep(b)} |-> sum(a)]

\* fee: the exact fee of the built transaction
fee(tx, st, policy) == MapGet(tx_inputs(tx, st), policy) - MapGet(tx_outputs(tx), policy)

(***************************************************************************)
(* Results.                                                                *)
(***************************************************************************)
Ok(v) == [ok |-> TRUE, val |-> v]
Err(e) == [ok |-> FALSE, val |-> e]

(***************************************************************************)
(* Hashes, blinders and the AES-GCM-SIV cipher of the LiquiDEX maker.     *)
(* Hashes and ciphertexts are the terms they are computed from; blinders  *)
(* are scalars.                                                            *)
(***************************************************************************)
\* u32::MAX, at the width of the model's integers
U32_MAX == 2147483647

\* sha256d of the consensus encoding of an outpoint: the hash that
\* hash_prevouts gives for a transaction with this one input
hash_prevout(outpoint) == (37 * 7 + outpoint + 1) % 9973

RECURSIVE hash_prevouts_upto(_, _)
hash_prevouts_upto(tx, n) ==
    IF n = 0 THEN 7
    ELSE (37 * hash_prevouts_upto(tx, n - 1) + tx.input[n].previous_output + 1) % 9973

\* get_hash_prevout: BIP-143 hash of all the previous outpoints
get_hash_prevout(tx) == hash_prevouts_upto(tx, Len(tx.input))

\* utils::derive_blinder(master_blinding_key, hash, vout, is_asset_blinder)
derive_blinder(master_blinding_key, hash, vout, is_asset_blinder) ==
    (31 * master_blinding_key + 17 * hash + 7 * (vout % 97)
        + (IF is_asset_blinder THEN 3 ELSE 0)) % Q

\* _liquidex_derive_blinder with the index of the first output
_liquidex_derive_blinder_first_vout(master_blinding_key, previous_outpoint, is_asset_blinder) ==
    derive_blinder(master_blinding_key, hash_prevout(previous_outpoint), 0,
                   is_asset_blinder)

_liquidex_derive_blinder(master_blinding_key, previous_outpoint, is_asset_blinder) ==
    derive_blinder(master_blinding_key, hash_prevout(previous_outpoint), U32_MAX,
                   is_asset_blinder)

liquidex_derive_asset_blinder(master_blinding_key, previous_outpoint) ==
    _liquidex_derive_blinder(master_blinding_key, previous_outpoint, TRUE)

liquidex_derive_value_blinder(master_blinding_key, previous_outpoint) ==
    _liquidex_derive_blinder(master_blinding_key, previous_outpoint, FALSE)

_liquidex_aes_key(master_blinding_key, script) ==
    <<"liquidex_aes_key", master_blinding_key, script>>

_liquidex_aes_nonce(master_blinding_key, previous_outpoint, asset, value, script) ==
    IF asset.kind = "Confidential" /\ value.kind = "Confidential"
    THEN Ok(<<"liquidex_aes_nonce", master_blinding_key, previous_outpoint,
              asset.v, value.v, script>>)
    ELSE Err("Asset and Value must be confidential")

\* u64::to_le_bytes and u64::from_le_bytes
RECURSIVE to_le_bytes(_, _)
to_le_bytes(value, n) ==
    IF n = 0 THEN <<>> ELSE <<value % 256>> \o to_le_bytes(value \div 256, n - 1)

RECURSIVE from_le_bytes(_)
from_le_bytes(bytes) ==
    IF bytes = <<>> THEN 0 ELSE bytes[1] + 256 * from_le_bytes(Tail(bytes))

\* cipher.encrypt_in_place(nonce, b"", text): ciphertext and tag
encrypt(key, aes_nonce, text) == [key |-> key, nonce |-> aes_nonce, text |-> text]

\* cipher.decrypt_in_place(nonce, b"", text): fails unless the tag verifies
decrypt(key, aes_nonce, ciphertext) ==
    IF ciphertext.key = key /\ ciphertext.nonce = aes_nonce
    THEN Ok(ciphertext.text)
    ELSE Err("aead::Error")

\* The samples of the 8 random bytes, and whether 0x02 || ciphertext is a
\* point of the curve (secp256k1_zkp::PublicKey::from_slice succeeds).
RandBytes == 0..3

is_point(ciphertext) == (from_le_bytes(ciphertext.text.value) + ciphertext.text.rand) % 2 = 0

(***************************************************************************)
(* liquidex_blind and liquidex_unblind.  `rand` is the sample with which  *)
(* the loop of liquidex_blind ends.                                        *)
(***************************************************************************)
liquidex_blind(master_blinding_key, tx, rand) ==
    IF Len(tx.input) # 1 \/ Len(tx.output) # 1
    THEN Err("Unexpected LiquiDEX maker transaction num in/out")
    ELSE IF ~(tx.output[1].asset.kind = "Explicit" /\ tx.output[1].value.kind = "Explicit")
    THEN Err("Unexpected LiquiDEX maker transaction")
    ELSE
    LET asset == tx.output[1].asset.v
        value == tx.output[1].value.v
        prevout == tx.input[1].previous_output
        asset_blinder == liquidex_derive_asset_blinder(master_blinding_key, prevout)
        value_blinder == liquidex_derive_value_blinder(master_blinding_key, prevout)
        asset_generator == new_blinded(asset, asset_blinder)
        value_commitment == PedersenCommitment(value, value_blinder, asset_generator)
        script == tx.output[1].script_pubkey
        key == _liquidex_aes_key(master_blinding_key, script)
        aes_nonce == _liquidex_aes_nonce(master_blinding_key, prevout,
                                         Confidential(asset_generator),
                                         Confidential(value_commitment), script)
        text == [value |-> to_le_bytes(value, 8), rand |-> rand]
        candidate == encrypt(key, aes_nonce.val, text)
        blinded == [tx EXCEPT !.output[1].asset = Confidential(asset_generator),
                              !.output[1].value = Confidential(value_commitment),
                              !.output[1].nonce = Confidential([prefix |-> 2, x |-> candidate])]
    IN  Ok([tx |-> blinded,
            secrets |-> TxOutSecrets(asset, asset_blinder, value, value_blinder)])

\* the samples that end the loop of liquidex_blind
blind_samples(master_blinding_key, tx) ==
    {r \in RandBytes :
        LET b == liquidex_blind(master_blinding_key, tx, r)
        IN  b.ok => is_point(b.val.tx.output[1].nonce.v.x)}

\* liquidex_unblind without the comparison of the value commitments
liquidex_unblind_value_unchecked(master_blinding_key, tx, vout, assets) ==
    IF vout + 1 > Len(tx.output) \/ vout + 1 > Len(tx.input)
    THEN Err("LiquiDEX error 1")
    ELSE
    LET out == tx.output[vout + 1]
        prevout == tx.input[vout + 1].previous_output
    IN
    IF ~(out.asset.kind = "Confidential" /\ out.value.kind = "Confidential"
            /\ out.nonce.kind = "Confidential")
    THEN Err("LiquiDEX error 2")
    ELSE
    LET asset_blinder == liquidex_derive_asset_blinder(master_blinding_key, prevout)
        value_blinder == liquidex_derive_value_blinder(master_blinding_key, prevout)
        key == _liquidex_aes_key(master_blinding_key, out.script_pubkey)
        aes_nonce == _liquidex_aes_nonce(master_blinding_key, prevout, out.asset,
                                         out.value, out.script_pubkey)
        text == decrypt(key, aes_nonce.val, out.nonce.v.x)
    IN
    IF ~text.ok THEN Err("aead::Error")
    ELSE
    LET value == from_le_bytes(text.val.value)
        matching == {c \in assets : new_blinded(c, asset_blinder) = out.asset.v}
    IN
    IF matching = {}
    THEN Err("LiquiDEX error asset not found")
    ELSE Ok(TxOutSecrets(CHOOSE c \in matching : TRUE, asset_blinder, value, value_blinder))

\* liquidex_unblind reading the amount from the random half of the plaintext
liquidex_unblind_wrong_half(master_blinding_key, tx, vout, assets) ==
    IF vout + 1 > Len(tx.output) \/ vout + 1 > Len(tx.input)
    THEN Err("LiquiDEX error 1")
    ELSE
    LET out == tx.output[vout + 1]
        prevout == tx.input[vout + 1].previous_output
    IN
    IF ~(out.asset.kind = "Confidential" /\ out.value.kind = "Confidential"
            /\ out.nonce.kind = "Confidential")
    THEN Err("LiquiDEX error 2")
    ELSE
    LET asset_blinder == liquidex_derive_asset_blinder(master_blinding_key, prevout)
        value_blinder == liquidex_derive_value_blinder(master_blinding_key, prevout)
        key == _liquidex_aes_key(master_blinding_key, out.script_pubkey)
        aes_nonce == _liquidex_aes_nonce(master_blinding_key, prevout, out.asset,
                                         out.value, out.script_pubkey)
        text == decrypt(key, aes_nonce.val, out.nonce.v.x)
    IN
    IF ~text.ok THEN Err("aead::Error")
    ELSE
    LET value == text.val.rand
        value_commitment == PedersenCommitment(value, value_blinder, out.asset.v)
        matching == {c \in assets : new_blinded(c, asset_blinder) = out.asset.v}
    IN
    IF value_commitment # out.value.v
    THEN Err("LiquiDEX error value commitment")
    ELSE IF matching = {}
    THEN Err("LiquiDEX error asset not found")
    ELSE Ok(TxOutSecrets(CHOOSE c \in matching : TRUE, asset_blinder, value, value_blinder))

liquidex_unblind(master_blinding_key, tx, vout, assets) ==
    IF vout + 1 > Len(tx.output) \/ vout + 1 > Len(tx.input)
    THEN Err("LiquiDEX error 1")
    ELSE
    LET out == tx.output[vout + 1]
        prevout == tx.input[vout + 1].previous_output
    IN
    IF ~(out.asset.kind = "Confidential" /\ out.value.kind = "Confidential"
            /\ out.nonce.kind = "Confidential")
    THEN Err("LiquiDEX error 2")
    ELSE
    LET asset_blinder == liquidex_derive_asset_blinder(master_blinding_key, prevout)
        value_blinder == liquidex_derive_value_blinder(master_blinding_key, prevout)
        key == _liquidex_aes_key(master_blinding_key, out.script_pubkey)
        aes_nonce == _liquidex_aes_nonce(master_blinding_key, prevout, out.asset,
                                         out.value, out.script_pubkey)
        text == decrypt(key, aes_nonce.val, out.nonce.v.x)
    IN
    IF ~text.ok THEN Err("aead::Error")
    ELSE
    LET value == from_le_bytes(text.val.value)
        tx_asset_generator == out.asset.v
        tx_value_commitment == out.value.v
        value_commitment == PedersenCommitment(value, value_blinder, tx_asset_generator)
        matching == {c \in assets : new_blinded(c, asset_blinder) = tx_asset_generator}
    IN
    IF value_commitment # tx_value_commitment
    THEN Err("LiquiDEX error value commitment")
    ELSE IF matching = {}
    THEN Err("LiquiDEX error asset not found")
    ELSE Ok(TxOutSecrets(CHOOSE c \in matching : TRUE, asset_blinder, value, value_blinder))

(***************************************************************************)
(* LiquidexProposal.                                                       *)
(***************************************************************************)
\* LiquidexTxOutSecrets
LiquidexTxOutSecrets(asset, asset_blinder, amount, amount_blinder) ==
    [asset |-> asset, asset_blinder |-> asset_blinder,
     amount |-> amount, amount_blinder |-> amount_blinder]

to_txoutsecrets(s) == TxOutSecrets(s.asset, s.asset_blinder, s.amount, s.amount_blinder)

from_txoutsecrets(t) == LiquidexTxOutSecrets(t.asset, t.asset_bf, t.value, t.value_bf)

\* hex::encode(serialize(tx)); a string that is not the hex of a transaction
\* is <<"garbage">>
tx_hex(tx) == <<"hex", tx>>

\* LiquidexProposal::new
LiquidexProposal(tx, input, output) ==
    [version |-> 0, tx |-> tx_hex(tx),
     inputs |-> <<from_txoutsecrets(input)>>,
     outputs |-> <<from_txoutsecrets(output)>>]

\* LiquidexProposal::transaction
transaction(proposal) ==
    IF proposal.tx[1] = "hex" THEN Ok(proposal.tx[2]) ELSE Err("decode")

\* LiquidexProposal::get_input
get_input(proposal) ==
    IF Len(proposal.inputs) # 1 THEN Err("LiquiDEX error unexpected inputs")
    ELSE Ok(to_txoutsecrets(proposal.inputs[1]))

\* verify_output_commitment rejecting only when both commitments differ
verify_output_commitment_both(proposal) ==
    LET dec == transaction(proposal) IN
    IF ~dec.ok THEN dec
    ELSE
    LET tx == dec.val IN
    IF \/ Len(tx.input) # 1 \/ Len(tx.output) # 1
       \/ Len(proposal.inputs) # 1 \/ Len(proposal.outputs) # 1
    THEN Err("LiquiDEX error")
    ELSE
    LET output == to_txoutsecrets(proposal.outputs[1]) IN
    IF ~(tx.output[1].asset.kind = "Confidential" /\ tx.output[1].value.kind = "Confidential")
    THEN Err("LiquiDEX error unexpected outputs")
    ELSE
    LET asset_generator == new_blinded(output.asset, output.asset_bf)
        value_commitment == PedersenCommitment(output.value, output.value_bf, asset_generator)
    IN  IF asset_generator # tx.output[1].asset.v /\ value_commitment # tx.output[1].value.v
        THEN Err("LiquiDEX error unexpected commitments")
        ELSE Ok(output)

\* LiquidexProposal::verify_output_commitment
verify_output_commitment(proposal) ==
    LET dec == transaction(proposal) IN
    IF ~dec.ok THEN dec
    ELSE
    LET tx == dec.val IN
    IF \/ Len(tx.input) # 1 \/ Len(tx.output) # 1
       \/ Len(proposal.inputs) # 1 \/ Len(proposal.outputs) # 1
    THEN Err("LiquiDEX error")
    ELSE
    LET output == to_txoutsecrets(proposal.outputs[1]) IN
    IF ~(tx.output[1].asset.kind = "Confidential" /\ tx.output[1].value.kind = "Confidential")
    THEN Err("LiquiDEX error unexpected outputs")
    ELSE
    LET tx_asset_generator == tx.output[1].asset.v
        tx_value_commitment == tx.output[1].value.v
        asset_generator == new_blinded(output.asset, output.asset_bf)
        value_commitment == PedersenCommitment(output.value, output.value_bf, asset_generator)
    IN  IF asset_generator # tx_asset_generator \/ value_commitment # tx_value_commitment
        THEN Err("LiquiDEX error unexpected commitments")
        ELSE Ok(output)

(***************************************************************************)
(* The state.                                                              *)
(*   store  the store's cache: the wallet's outputs (all_txs, unblinded)   *)
(*          and indexes.external, indexes.internal                         *)
(*   call   the frame of the operation in progress, or of the one that     *)
(*          returned last                                                  *)
(*   probe  arguments and results of the pure functions under test          *)
(***************************************************************************)
\* The wallet contents: up to MaxUtxos outputs, each content listed once.
\* The store: the wallet's outputs, the address indexes, the receive
\* addresses with a derivation path and the LiquiDEX asset set.
Stores ==
    {[txo |-> t, external |-> 0, internal |-> 0,
      paths |-> AddrIndexes, liquidex_assets |-> {}] :
        t \in {u \in UNION {[1..n -> UtxoTypes] : n \in 0..MaxUtxos} :
                \A i \in 1..(Len(u) - 1) : TypeKey(u[i]) <= TypeKey(u[i + 1])}}

NoSecrets == TxOutSecrets(policy_asset, 0, 0, 0)

NoResult == [status |-> "none", err |-> ""]

Idle ==
    [op |-> "idle", pc |-> "idle", result |-> NoResult, opt |-> <<>>,
     tx |-> NewTx, plain |-> NewTx, pool |-> {}, used |-> {}, fee_rate |-> 0,
     maker_input |-> NoSecrets, maker_output |-> NoSecrets,
     changes |-> <<>>, fee_val |-> 0,
     held |-> <<>>, guards |-> {}, snap |-> {}, ret |-> <<>>,
     redo |-> FALSE, once |-> <<>>]

\* RwLock::write / RwLock::read on the store: the guard is pushed on the
\* guards the thread holds, and the set of guards held together is logged.
acquire(frame, guard) ==
    [frame EXCEPT !.held = Append(@, guard),
                  !.guards = @ \cup {{frame.held[k] : k \in DOMAIN frame.held} \cup {guard}}]

\* The innermost guard goes out of scope.
release(frame) == [frame EXCEPT !.held = SubSeq(@, 1, Len(@) - 1)]

\* A read guard is taken on the store in state st: the state is noted.
read(frame, st) == [acquire(frame, "read") EXCEPT !.snap = @ \cup {st}]

\* The frame of an operation that starts: a caller that repeats an
\* operation passes the same arguments again.
Begin(frame, op, opt) ==
    [Idle EXCEPT !.op = op, !.opt = opt, !.redo = frame.redo, !.once = frame.once]

\* The operation may start with these arguments.
Callable(frame, op, opt) ==
    \/ frame.pc = "idle"
    \/ frame.pc = "redo" /\ frame.op = op /\ frame.opt = opt

NoProbe == [fn |-> "none"]

\* The operation returns: its guards go out of scope.
Returned(frame, status, err) ==
    [frame EXCEPT !.pc = "done", !.result = [status |-> status, err |-> err],
                  !.held = <<>>]

(***************************************************************************)
(* create_tx                                                               *)
(***************************************************************************)
\* A recipient address of the given network.
RecipientAddress(params, n) ==
    [params |-> params,
     script_pubkey |-> <<"p2shwpkh", "recipient", 0, n>>,
     blinding_pubkey |-> blinding_pubkey(<<"p2shwpkh", "recipient", 0, n>>)]

AddressAmount(params, asset, satoshi) ==
    [address |-> RecipientAddress(params, 1), satoshi |-> satoshi, asset |-> asset]

Addressees ==
    {AddressAmount(address_params, "LBTC", DUST_VALUE),
     AddressAmount(address_params, "LBTC", DUST_VALUE + 1),
     AddressAmount(address_params, "LBTC", 8),
     AddressAmount(address_params, "USDT", 0),
     AddressAmount(address_params, "USDT", 1),
     AddressAmount(address_params, "USDT", 10),
     AddressAmount(OtherParams, "LBTC", 0)}

\* CreateTransactionOpt: addressees and fee_rate (satoshi/kbyte, 0 for None)
CreateTransactionOpts ==
    {[addressees |-> a, fee_rate |-> DefaultFeeRate] :
        a \in UNION {[1..n -> Addressees] : n \in 0..MaxAddressees}}

RECURSIVE add_outputs(_, _, _)
add_outputs(tx, addressees, n) ==
    IF n = 0 THEN tx
    ELSE add_output(add_outputs(tx, addressees, n - 1), addressees[n].address,
                    addressees[n].satoshi, addressees[n].asset)

\* the checks without the one of the empty list
create_tx_validate_nonempty_assumed(opt) ==
    IF \E i \in DOMAIN opt.addressees : opt.addressees[i].address.params # address_params
    THEN Err("InvalidAddress")
    ELSE IF \E i \in DOMAIN opt.addressees : opt.addressees[i].satoshi = 0
    THEN Err("InvalidAmount")
    ELSE IF \E i \in DOMAIN opt.addressees :
                /\ opt.addressees[i].satoshi <= DUST_VALUE
                /\ opt.addressees[i].asset = policy_asset
    THEN Err("InvalidAmount")
    ELSE Ok(opt)

\* the amount checks made before the network check
create_tx_validate_amount_first(opt) ==
    IF \E i \in DOMAIN opt.addressees : opt.addressees[i].satoshi = 0
    THEN Err("InvalidAmount")
    ELSE IF \E i \in DOMAIN opt.addressees :
                /\ opt.addressees[i].satoshi <= DUST_VALUE
                /\ opt.addressees[i].asset = policy_asset
    THEN Err("InvalidAmount")
    ELSE IF \E i \in DOMAIN opt.addressees : opt.addressees[i].address.params # address_params
    THEN Err("InvalidAddress")
    ELSE IF opt.addressees = <<>>
    THEN Err("EmptyAddressees")
    ELSE Ok(opt)

\* the checks with the dust rule applied to every asset
create_tx_validate_dust_any(opt) ==
    IF \E i \in DOMAIN opt.addressees : opt.addressees[i].address.params # address_params
    THEN Err("InvalidAddress")
    ELSE IF opt.addressees = <<>>
    THEN Err("EmptyAddressees")
    ELSE IF \E i \in DOMAIN opt.addressees : opt.addressees[i].satoshi <= DUST_VALUE
    THEN Err("InvalidAmount")
    ELSE Ok(opt)

\* The checks at the head of create_tx, in the order of the code.
create_tx_validate(opt) ==
    IF \E i \in DOMAIN opt.addressees : opt.addressees[i].address.params # address_params
    THEN Err("InvalidAddress")
    ELSE IF opt.addressees = <<>>
    THEN Err("EmptyAddressees")
    ELSE IF \E i \in DOMAIN opt.addressees : opt.addressees[i].satoshi = 0
    THEN Err("InvalidAmount")
    ELSE IF \E i \in DOMAIN opt.addressees :
                /\ opt.addressees[i].satoshi <= DUST_VALUE
                /\ opt.addressees[i].asset = policy_asset
    THEN Err("InvalidAmount")
    ELSE Ok(opt)

\* create_tx up to STEP 2: validation, fee rate, the utxos (self.utxos()
\* takes a read guard and drops it on return) and STEP 1, the requested
\* outputs.
CreateTxStart ==
    /\ call.pc = "idle"
    /\ \E opt \in CreateTransactionOpts :
         /\ LET v == create_tx_validate(opt)
                 f == Begin(call, "create_tx", opt)
             IN  call' = IF ~v.ok
                         THEN Returned(f, "Err", v.val)
                         ELSE [release(read(f, store)) EXCEPT
                                   !.pc = "lock",
                                   !.fee_rate = opt.fee_rate,
                                   !.pool = utxos(store),
                                   !.tx = add_outputs(NewTx, opt.addressees,
                                                      Len(opt.addressees))]
    /\ UNCHANGED <<store, probe>>

\* let store_read = self.store.read()?: the guard held until create_tx returns
CreateTxLock ==
    /\ call.op = "create_tx" /\ call.pc = "lock"
    /\ call' = [read(call, store) EXCEPT !.pc = "select"]
    /\ UNCHANGED <<store, probe>>

\* the selection without the filter on the utxos used in this loop
Largest_of_all(st, pool, used, asset) ==
    LET cand == {i \in pool : st.txo[i].asset = asset}
    IN  {i \in cand : \A j \in cand : st.txo[j].value <= st.txo[i].value}

\* the selection taking any unused utxo of the asset
Unsorted(st, pool, used, asset) ==
    {i \in pool : st.txo[i].asset = asset /\ i \notin used}

\* The utxos of the asset that were not used in this loop and have the
\* largest value: asset_utxos.sort_by(value) followed by pop().
Largest(st, pool, used, asset) ==
    LET cand == {i \in pool : st.txo[i].asset = asset /\ i \notin used}
    IN  {i \in cand : \A j \in cand : st.txo[j].value <= st.txo[i].value}

\* One iteration of the loop of STEP 2.
CreateTxSelect ==
    /\ call.op = "create_tx" /\ call.pc = "select"
    /\ LET n == needs(call.tx, call.fee_rate, policy_asset, store) IN
       IF n = <<>>
       THEN call' = [call EXCEPT !.pc = "changes"]
       ELSE LET asset == n[Len(n)][1]
                best == Largest(store, call.pool, call.used, asset)
            IN  IF best = {}
                THEN call' = Returned(call, "Err", "InsufficientFunds")
                ELSE \E utxo \in best :
                        call' = [call EXCEPT !.used = @ \cup {utxo},
                                             !.tx = add_input(@, utxo)]
    /\ UNCHANGED <<store, probe>>

\* The orders in which a HashMap of changes may be iterated.
Orders(S) == {o \in [1..Cardinality(S) -> S] : \A i, j \in DOMAIN o : o[i] = o[j] => i = j}

\* add_changes deriving every change address from the same index
RECURSIVE add_changes_one_index(_, _, _, _, _)
add_changes_one_index(tx, st, chg, order, n) ==
    IF n = 0 THEN tx
    ELSE add_output(add_changes_one_index(tx, st, chg, order, n - 1),
                    derive_address(<<1, st.internal + 1>>),
                    chg[order[n]], order[n])

RECURSIVE add_changes(_, _, _, _, _)
add_changes(tx, st, chg, order, n) ==
    IF n = 0 THEN tx
    ELSE add_output(add_changes(tx, st, chg, order, n - 1),
                    derive_address(<<1, st.internal + (n - 1) + 1>>),
                    chg[order[n]], order[n])

\* STEP 3: the estimated fee and the change outputs.
CreateTxChanges ==
    /\ call.op = "create_tx" /\ call.pc = "changes"
    /\ LET fee_est == estimated_fee(call.tx, call.fee_rate, estimated_changes(call.tx, store))
           chg == changes(call.tx, fee_est, policy_asset, store)
       IN  \E order \in Orders(DOMAIN chg) :
              call' = [call EXCEPT !.pc = "scramble",
                                   !.changes = [k \in DOMAIN order |-> <<order[k], chg[order[k]]>>],
                                   !.tx = add_changes(@, store, chg, order, Len(order))]
    /\ UNCHANGED <<store, probe>>

CreateTxScramble ==
    /\ call.op = "create_tx" /\ call.pc = "scramble"
    /\ \E t \in scramble(call.tx) : call' = [call EXCEPT !.pc = "fee", !.tx = t]
    /\ UNCHANGED <<store, probe>>

\* The exact fee, the fee output and the returned TransactionDetails.
CreateTxFee ==
    /\ call.op = "create_tx" /\ call.pc = "fee"
    /\ LET fee_val == fee(call.tx, store, policy_asset) IN
       call' = Returned([call EXCEPT !.fee_val = fee_val,
                                     !.plain = add_fee_output(call.tx, fee_val, policy_asset),
                                     !.tx = add_fee_output(@, fee_val, policy_asset)],
                        "Ok", "")
    /\ UNCHANGED <<store, probe>>

(***************************************************************************)
(* sign_with_xprv: blind_tx, then a signature on every input.             *)
(***************************************************************************)
\* secp256k1_zkp::CommitmentSecrets
CommitmentSecrets(value, value_bf, asset_bf) ==
    [value |-> value, value_bf |-> value_bf, asset_bf |-> asset_bf]

RECURSIVE SumSecrets(_, _)
SumSecrets(secrets, n) ==
    IF n = 0 THEN 0
    ELSE (SumSecrets(secrets, n - 1)
            + secrets[n].value * secrets[n].asset_bf + secrets[n].value_bf) % Q

\* secp256k1_zkp::compute_adaptive_blinding_factor: the value blinder with
\* which the blinding factors of the outputs sum to those of the inputs
compute_adaptive_blinding_factor(value, asset_bf, ins, outs) ==
    (SumSecrets(ins, Len(ins)) - SumSecrets(outs, Len(outs)) - value * asset_bf) % Q

\* The signature hash of input n: what the signature commits to.
sighash(tx, n, sighash_type) ==
    IF sighash_type = "ALL"
    THEN <<sighash_type, [k \in DOMAIN tx.input |-> tx.input[k].previous_output], tx.output>>
    ELSE <<sighash_type, <<tx.input[n].previous_output>>,
           IF n \in DOMAIN tx.output THEN <<tx.output[n]>> ELSE <<>> >>

\* internal_sign_elements: (script_sig, witness) of input n
internal_sign_elements(tx, n, script, sighash_type) ==
    [script_sig |-> <<"p2shwpkh_script_sig", script>>,
     witness |-> <<[sig |-> sighash(tx, n, sighash_type)], <<"pubkey", script>> >>]

\* The sender's ephemeral key and the blinders drawn for output n.
EphemeralKey(n) == PublicKey(2, <<"ecdh_pk", n>>)
RandomAssetBf(n) == (3 * n + 1) % Q
RandomValueBf(n) == (5 * n + 2) % Q

\* The last output that has a blinding key.
LastBlinded(tx) ==
    LET B == {n \in DOMAIN tx.output : tx.output[n].nonce.kind = "Confidential"}
    IN  IF B = {} THEN 0 ELSE CHOOSE n \in B : \A m \in B : m <= n

\* blind_last when blinding_key and ecdh_pubkey were not swapped: no output
\* carries a blinding key
blind_outputs_unswapped(tx, ins, last, n) ==
    [output |-> SubSeq(tx.output, 1, n), secrets |-> <<>>]

RECURSIVE blind_outputs(_, _, _, _)
\* pset.blind_last: every output that carries a blinding key is blinded, the
\* last of them with the balancing value blinder.  The result is the pair of
\* the outputs and the commitment secrets of the blinded outputs so far.
blind_outputs(tx, ins, last, n) ==
    IF n = 0 THEN [output |-> <<>>, secrets |-> <<>>]
    ELSE
    LET prev == blind_outputs(tx, ins, last, n - 1)
        o == tx.output[n]
    IN  IF o.nonce.kind # "Confidential" \/ o.asset.kind # "Explicit"
            \/ o.value.kind # "Explicit"
        THEN [prev EXCEPT !.output = Append(@, o)]
        ELSE
        LET abf == RandomAssetBf(n)
            vbf == IF n = last
                   THEN compute_adaptive_blinding_factor(o.value.v, abf, ins, prev.secrets)
                   ELSE RandomValueBf(n)
            gen == new_blinded(o.asset.v, abf)
        IN  [output |-> Append(prev.output,
                               [o EXCEPT !.asset = Confidential(gen),
                                         !.value = Confidential(PedersenCommitment(o.value.v, vbf, gen)),
                                         !.nonce = Confidential(EphemeralKey(n)),
                                         !.witness = [surjection_proof |-> TRUE,
                                                      rangeproof |-> TRUE]]),
             secrets |-> Append(prev.secrets, CommitmentSecrets(o.value.v, vbf, abf))]

\* The outpoints of the wallet: the keys of cache.unblinded and of cache.all_txs.
Known(st, outpoint) == outpoint \in DOMAIN st.txo

\* WalletCtx::blind_tx
blind_tx(st, tx) ==
    IF \E n \in DOMAIN tx.input : ~Known(st, tx.input[n].previous_output)
    THEN Err("cannot find unblinded values")
    ELSE
    LET ins == [n \in DOMAIN tx.input |->
                    LET u == Unblinded(st, tx.input[n].previous_output)
                    IN  CommitmentSecrets(u.value, u.value_bf, u.asset_bf)]
    IN  Ok([tx EXCEPT !.output = blind_outputs(tx, ins, LastBlinded(tx), Len(tx.output)).output])

\* sign_with_xprv is called on the transaction that create_tx returned:
\* the read guard is taken and the transaction is blinded in place.
SignBlind ==
    /\ call.op = "create_tx" /\ call.pc = "done" /\ call.result.status = "Ok"
    /\ LET b == blind_tx(store, call.tx)
           f == read([call EXCEPT !.op = "sign_with_xprv", !.used = {},
                                  !.guards = {}, !.snap = {}], store)
           g == release(read(f, store))
       IN  call' = IF ~b.ok
                   THEN Returned(g, "Err", b.val)
                   ELSE [g EXCEPT !.pc = "sign", !.result = NoResult, !.tx = b.val]
    /\ UNCHANGED <<store, probe>>

\* the signing loop followed by the advance of the internal index by the
\* number of changes used
SignInput_internal_advanced ==
    /\ call.op = "sign_with_xprv" /\ call.pc = "sign"
    /\ LET n == Cardinality(call.used) + 1 IN
       IF n > Len(call.tx.input)
       THEN /\ call' = Returned(call, "Ok", "")
            /\ store' = [store EXCEPT !.internal = @ + Len(call.changes)]
       ELSE /\ store' = store
            /\ IF ~Known(store, call.tx.input[n].previous_output)
               THEN call' = Returned(call, "Err", "expected tx")
               ELSE IF ~HasPath(store, call.tx.input[n].previous_output)
               THEN call' = Returned(call, "Err", "can't find derivation path")
               ELSE LET sg == internal_sign_elements(call.tx, n,
                                  ScriptOf(store, call.tx.input[n].previous_output), "ALL")
                    IN  call' = [call EXCEPT !.used = @ \cup {n},
                                             !.tx.input[n].script_sig = sg.script_sig,
                                             !.tx.input[n].witness = sg.witness]
    /\ UNCHANGED probe

\* One iteration of the signing loop; `used` holds the inputs signed so far.
SignInput ==
    /\ call.op = "sign_with_xprv" /\ call.pc = "sign"
    /\ LET n == Cardinality(call.used) + 1 IN
       IF n > Len(call.tx.input)
       THEN call' = Returned(call, "Ok", "")
       ELSE IF ~Known(store, call.tx.input[n].previous_output)
       THEN call' = Returned(call, "Err", "expected tx")
       ELSE IF ~HasPath(store, call.tx.input[n].previous_output)
       THEN call' = Returned(call, "Err", "can't find derivation path")
       ELSE LET sg == internal_sign_elements(call.tx, n,
                          ScriptOf(store, call.tx.input[n].previous_output), "ALL")
            IN  call' = [call EXCEPT !.used = @ \cup {n},
                                     !.tx.input[n].script_sig = sg.script_sig,
                                     !.tx.input[n].witness = sg.witness]
    /\ UNCHANGED <<store, probe>>

(***************************************************************************)
(* liquidex_take                                                           *)
(***************************************************************************)
\* self.master_blinding, and the master blinding key of another wallet
master_blinding == 1
MakerKey == 2

MakerAddress ==
    [params |-> address_params,
     script_pubkey |-> <<"p2shwpkh", "maker", 0, 1>>,
     blinding_pubkey |-> blinding_pubkey(<<"p2shwpkh", "maker", 0, 1>>)]

\* The maker's side (liquidex_make of the maker's wallet): one input, one
\* output of `value` of `asset`, blinded by liquidex_blind and signed with
\* SIGHASH_SINGLE | ANYONECANPAY.
MakerProposal(outpoint, input, asset, value) ==
    LET tx0 == add_output(add_input(NewTx, outpoint), MakerAddress, value, asset)
        r == CHOOSE x \in blind_samples(MakerKey, tx0) : TRUE
        b == liquidex_blind(MakerKey, tx0, r).val
        sg == internal_sign_elements(b.tx, 1, <<"p2shwpkh", "maker", 0, 2>>, "SINGLE|ANYONECANPAY")
        tx1 == [b.tx EXCEPT !.input[1].script_sig = sg.script_sig,
                            !.input[1].witness = sg.witness]
    IN  LiquidexProposal(tx1, input, b.secrets)

\* The secrets a foreign maker declares for its input.
MakerInput(asset, value) == TxOutSecrets(asset, 9, value, 13)

MakerInValues == {0, 10}
MakerOutValues == {0, 6, 10}

HonestProposals ==
    {MakerProposal(ForeignOutPoint, MakerInput(a, v), b, w) :
        a \in Assets, v \in MakerInValues, b \in Assets, w \in MakerOutValues}

\* Proposals the wallet made itself, spending its own output 1.
OwnProposals(st) ==
    IF 1 \in utxos(st)
    THEN {MakerProposal(1, Unblinded(st, 1), b, 6) : b \in Assets}
    ELSE {}

\* Proposals that are not what a maker produces.
BaseProposal == MakerProposal(ForeignOutPoint, MakerInput("USDT", 10), "LBTC", 6)
BaseTx == BaseProposal.tx[2]

MalformedProposals ==
    {[BaseProposal EXCEPT !.tx = <<"garbage">>],
     [BaseProposal EXCEPT !.tx = tx_hex([BaseTx EXCEPT !.input = <<>>])],
     [BaseProposal EXCEPT !.tx = tx_hex(add_input(BaseTx, 1))],
     [BaseProposal EXCEPT !.tx = tx_hex([BaseTx EXCEPT !.output = <<>>])],
     [BaseProposal EXCEPT !.tx = tx_hex(add_output(BaseTx, MakerAddress, 1, "LBTC"))],
     [BaseProposal EXCEPT !.inputs = <<>>],
     [BaseProposal EXCEPT !.inputs = @ \o @],
     [BaseProposal EXCEPT !.outputs = <<>>],
     [BaseProposal EXCEPT !.outputs = @ \o @],
     [BaseProposal EXCEPT !.tx = tx_hex([BaseTx EXCEPT !.output[1].asset = Explicit("LBTC")])],
     [BaseProposal EXCEPT !.tx = tx_hex([BaseTx EXCEPT !.output[1].value = Explicit(6)])],
     [BaseProposal EXCEPT !.tx = tx_hex([BaseTx EXCEPT !.output[1].nonce = Null])],
     [BaseProposal EXCEPT !.outputs[1].asset = "USDT"],
     [BaseProposal EXCEPT !.outputs[1].amount = 7],
     [BaseProposal EXCEPT !.outputs[1].asset_blinder = (@ + 1) % Q],
     [BaseProposal EXCEPT !.outputs[1].amount_blinder = (@ + 1) % Q]}

Proposals(st) == HonestProposals \cup OwnProposals(st) \cup MalformedProposals

\* get_address deriving the address of the index it read before the increment
get_address_old_index(st) ==
    [store |-> [st EXCEPT !.external = @ + 1],
     address |-> derive_address(<<0, st.external>>)]

\* WalletCtx::get_address: the store after the write, and the address
get_address(st) ==
    [store |-> [st EXCEPT !.external = @ + 1],
     address |-> derive_address(<<0, st.external + 1>>)]

\* The checks at the head of liquidex_take, in the order of the code.
liquidex_take_verify(proposal) ==
    LET dec == transaction(proposal)
        maker_output == verify_output_commitment(proposal)
        maker_input == get_input(proposal)
    IN  IF ~dec.ok THEN dec
        ELSE IF ~maker_output.ok THEN maker_output
        ELSE IF ~maker_input.ok THEN maker_input
        ELSE Ok([tx |-> dec.val, maker_output |-> maker_output.val,
                 maker_input |-> maker_input.val])

\* the write guard bound to a variable that lives until the operation returns
with_write_kept(frame) == acquire(frame, "write")

\* A write guard that lives in one block or statement: the block of
\* get_address that bumps the index, dropped before derive_address.
with_write(frame) == release(acquire(frame, "write"))

\* liquidex_take taking the receive address before it verifies the proposal
TakeStart_address_first ==
    /\ call.pc \in {"idle", "redo"}
    /\ \E proposal \in Proposals(store) :
         /\ Callable(call, "liquidex_take", proposal)
         /\ LET v == liquidex_take_verify(proposal)
                 a == get_address(store)
                 f == with_write(Begin(call, "liquidex_take", proposal))
             IN  /\ store' = a.store
                 /\ IF ~v.ok
                    THEN call' = Returned(f, "Err", v.val)
                    ELSE call' = [f EXCEPT
                            !.pc = "utxos",
                            !.fee_rate = DefaultFeeRate,
                            !.maker_input = v.val.maker_input,
                            !.maker_output = v.val.maker_output,
                            !.tx = add_output(v.val.tx, a.address, v.val.maker_input.value,
                                              v.val.maker_input.asset)]
    /\ UNCHANGED probe

\* liquidex_take up to the utxos: verification, the receive address and
\* the output that pays the maker's input to the taker.
TakeStart ==
    /\ call.pc \in {"idle", "redo"}
    /\ \E proposal \in Proposals(store) :
         /\ Callable(call, "liquidex_take", proposal)
         /\ LET v == liquidex_take_verify(proposal)
                 a == get_address(store)
                 f == Begin(call, "liquidex_take", proposal)
             IN  IF ~v.ok
                 THEN /\ call' = Returned(f, "Err", v.val)
                      /\ store' = store
                 ELSE /\ store' = a.store
                      /\ call' = [with_write(f) EXCEPT
                            !.pc = "utxos",
                            !.fee_rate = DefaultFeeRate,
                            !.maker_input = v.val.maker_input,
                            !.maker_output = v.val.maker_output,
                            !.tx = add_output(v.val.tx, a.address, v.val.maker_input.value,
                                              v.val.maker_input.asset)]
    /\ UNCHANGED probe

\* let utxos = self.utxos()?: a read guard of its own, dropped on return
TakeUtxos ==
    /\ call.op = "liquidex_take" /\ call.pc = "utxos"
    /\ call' = [release(read(call, store)) EXCEPT !.pc = "lock", !.pool = utxos(store)]
    /\ UNCHANGED <<store, probe>>

\* the maker's input is not entered in used_utxo
TakeLock_without_exclusion ==
    /\ call.op = "liquidex_take" /\ call.pc = "lock"
    /\ call' = [read(call, store) EXCEPT !.pc = "select", !.used = {}]
    /\ UNCHANGED <<store, probe>>

\* let store_read = self.store.read()?, held until liquidex_take returns,
\* and the exclusion of the maker's input when it is one of the utxos.
TakeLock ==
    /\ call.op = "liquidex_take" /\ call.pc = "lock"
    /\ call' = [read(call, store) EXCEPT
                    !.pc = "select",
                    !.used = IF call.tx.input[1].previous_output \in call.pool
                             THEN {call.tx.input[1].previous_output} ELSE {}]
    /\ UNCHANGED <<store, probe>>

\* One iteration of the selection loop; needs.pop() takes the entry that the
\* HashMap iteration of liquidex_needs happened to put last.
TakeSelect ==
    /\ call.op = "liquidex_take" /\ call.pc = "select"
    /\ LET n == liquidex_needs(call.maker_input, call.maker_output, call.tx,
                               call.fee_rate, policy_asset, store)
       IN  IF DOMAIN n = {}
           THEN call' = [call EXCEPT !.pc = "changes"]
           ELSE \E asset \in DOMAIN n :
                  LET best == Largest(store, call.pool, call.used, asset) IN
                  IF best = {}
                  THEN call' = Returned(call, "Err", "InsufficientFunds")
                  ELSE \E utxo \in best :
                          call' = [call EXCEPT !.used = @ \cup {utxo},
                                               !.tx = add_input(@, utxo)]
    /\ UNCHANGED <<store, probe>>

TakeChanges ==
    /\ call.op = "liquidex_take" /\ call.pc = "changes"
    /\ LET fee_est == estimated_fee(call.tx, call.fee_rate,
                          liquidex_estimated_changes(call.maker_input, call.tx, store))
           chg == liquidex_changes(call.maker_input, call.maker_output, call.tx,
                                   fee_est, policy_asset, store)
       IN  IF chg.status = "panic"
           THEN call' = Returned(call, "panic", "liquidex_changes")
           ELSE \E order \in Orders(DOMAIN chg.changes) :
                  call' = [call EXCEPT
                      !.pc = "fee",
                      !.changes = [k \in DOMAIN order |-> <<order[k], chg.changes[order[k]]>>],
                      !.tx = add_changes(@, store, chg.changes, order, Len(order))]
    /\ UNCHANGED <<store, probe>>

\* the fee output inserted after the maker's output instead of pushed last
TakeFee_after_maker ==
    /\ call.op = "liquidex_take" /\ call.pc = "fee"
    /\ LET f == liquidex_fee(call.maker_input, call.maker_output, call.tx,
                             policy_asset, store)
           placed == <<call.tx.output[1], FeeTxOut(f.fee, policy_asset)>>
                        \o SubSeq(call.tx.output, 2, Len(call.tx.output))
       IN  IF f.status = "panic"
           THEN call' = Returned(call, "panic", "liquidex_fee")
           ELSE call' = [call EXCEPT
                      !.pc = "blind", !.fee_val = f.fee,
                      !.plain = [call.tx EXCEPT !.output = placed],
                      !.tx.output = placed]
    /\ UNCHANGED <<store, probe>>

TakeFee ==
    /\ call.op = "liquidex_take" /\ call.pc = "fee"
    /\ LET f == liquidex_fee(call.maker_input, call.maker_output, call.tx,
                             policy_asset, store)
       IN  IF f.status = "panic"
           THEN call' = Returned(call, "panic", "liquidex_fee")
           ELSE call' = [call EXCEPT
                      !.pc = "blind", !.fee_val = f.fee,
                      !.plain = [call.tx EXCEPT !.output = Append(@, FeeTxOut(f.fee, policy_asset))],
                      !.tx.output = Append(@, FeeTxOut(f.fee, policy_asset))]
    /\ UNCHANGED <<store, probe>>

\* min_value of the range proofs: no script of the model is provably unspendable
min_value == 1

\* RangeProof::new fails below min_value; SurjectionProof::new fails when no
\* input carries the asset of the output.
proofs_fail(value, asset, domain) == value < min_value \/ asset \notin domain

RECURSIVE take_blind_outputs_all_derived(_, _, _, _, _)
\* the loop giving a derived value blinder to the last output as well
take_blind_outputs_all_derived(maker_output, tx, ins, domain, n) ==
    IF n = 0 THEN [status |-> "Ok", output |-> <<>>, secrets |-> <<>>]
    ELSE
    LET prev == take_blind_outputs_all_derived(maker_output, tx, ins, domain, n - 1)
        o == tx.output[n]
        out_num == Len(tx.output)
    IN
    IF prev.status # "Ok" THEN prev
    ELSE IF is_fee(o) THEN [prev EXCEPT !.output = Append(@, o)]
    ELSE IF n = 1 /\ o.value.kind = "Confidential" /\ o.asset.kind = "Confidential"
                /\ o.nonce.kind = "Confidential"
    THEN IF proofs_fail(maker_output.value, maker_output.asset, domain)
         THEN [prev EXCEPT !.status = "Err"]
         ELSE [prev EXCEPT
                  !.output = Append(@, [o EXCEPT !.witness = [surjection_proof |-> TRUE,
                                                              rangeproof |-> TRUE]]),
                  !.secrets = Append(@, CommitmentSecrets(maker_output.value,
                                                          maker_output.value_bf,
                                                          maker_output.asset_bf))]
    ELSE IF o.value.kind = "Explicit" /\ o.asset.kind = "Explicit"
                /\ o.nonce.kind = "Confidential"
    THEN LET hash == get_hash_prevout(tx)
             asset_blinder == derive_blinder(master_blinding, hash, n - 1, TRUE)
             balanced == ~(n - 1 < out_num - 1)
             value_blinder ==
                 IF ~balanced
                 THEN derive_blinder(master_blinding, hash, n - 1, FALSE)
                 ELSE compute_adaptive_blinding_factor(o.value.v, asset_blinder, ins,
                                                       prev.secrets)
             gen == new_blinded(o.asset.v, asset_blinder)
         IN  IF proofs_fail(o.value.v, o.asset.v, domain)
             THEN [prev EXCEPT !.status = "Err",
                               !.secrets = IF balanced THEN @
                                           ELSE Append(@, CommitmentSecrets(o.value.v,
                                                           value_blinder, asset_blinder))]
             ELSE [prev EXCEPT
                    !.output = Append(@,
                        [o EXCEPT !.nonce = Confidential(EphemeralKey(n)),
                                  !.asset = Confidential(gen),
                                  !.value = Confidential(PedersenCommitment(o.value.v,
                                                                            value_blinder, gen)),
                                  !.witness = [surjection_proof |-> TRUE, rangeproof |-> TRUE]]),
                    !.secrets = IF balanced THEN @
                                ELSE Append(@, CommitmentSecrets(o.value.v, value_blinder,
                                                                 asset_blinder))]
    ELSE [prev EXCEPT !.status = "panic"]

RECURSIVE take_blind_outputs(_, _, _, _, _)
\* The loop over the outputs of liquidex_take_blind, up to output n.
take_blind_outputs(maker_output, tx, ins, domain, n) ==
    IF n = 0 THEN [status |-> "Ok", output |-> <<>>, secrets |-> <<>>]
    ELSE
    LET prev == take_blind_outputs(maker_output, tx, ins, domain, n - 1)
        o == tx.output[n]
        out_num == Len(tx.output)
    IN
    IF prev.status # "Ok" THEN prev
    ELSE IF is_fee(o) THEN [prev EXCEPT !.output = Append(@, o)]
    ELSE IF n = 1 /\ o.value.kind = "Confidential" /\ o.asset.kind = "Confidential"
                /\ o.nonce.kind = "Confidential"
    THEN IF proofs_fail(maker_output.value, maker_output.asset, domain)
         THEN [prev EXCEPT !.status = "Err"]
         ELSE [prev EXCEPT
                  !.output = Append(@, [o EXCEPT !.witness = [surjection_proof |-> TRUE,
                                                              rangeproof |-> TRUE]]),
                  !.secrets = Append(@, CommitmentSecrets(maker_output.value,
                                                          maker_output.value_bf,
                                                          maker_output.asset_bf))]
    ELSE IF o.value.kind = "Explicit" /\ o.asset.kind = "Explicit"
                /\ o.nonce.kind = "Confidential"
    THEN LET hash == get_hash_prevout(tx)
             asset_blinder == derive_blinder(master_blinding, hash, n - 1, TRUE)
             balanced == ~(n - 1 < out_num - 2)
             value_blinder ==
                 IF ~balanced
                 THEN derive_blinder(master_blinding, hash, n - 1, FALSE)
                 ELSE compute_adaptive_blinding_factor(o.value.v, asset_blinder, ins,
                                                       prev.secrets)
             gen == new_blinded(o.asset.v, asset_blinder)
         IN  IF proofs_fail(o.value.v, o.asset.v, domain)
             THEN [prev EXCEPT !.status = "Err",
                               !.secrets = IF balanced THEN @
                                           ELSE Append(@, CommitmentSecrets(o.value.v,
                                                           value_blinder, asset_blinder))]
             ELSE [prev EXCEPT
                    !.output = Append(@,
                        [o EXCEPT !.nonce = Confidential(EphemeralKey(n)),
                                  !.asset = Confidential(gen),
                                  !.value = Confidential(PedersenCommitment(o.value.v,
                                                                            value_blinder, gen)),
                                  !.witness = [surjection_proof |-> TRUE, rangeproof |-> TRUE]]),
                    !.secrets = IF balanced THEN @
                                ELSE Append(@, CommitmentSecrets(o.value.v, value_blinder,
                                                                 asset_blinder))]
    ELSE [prev EXCEPT !.status = "panic"]

\* WalletCtx::liquidex_take_blind
liquidex_take_blind(st, maker_input, maker_output, tx) ==
    IF \E n \in 2..Len(tx.input) : ~Known(st, tx.input[n].previous_output)
    THEN [status |-> "Err", tx |-> tx]
    ELSE
    LET secret(n) == IF n = 1 THEN maker_input ELSE Unblinded(st, tx.input[n].previous_output)
        ins == [n \in DOMAIN tx.input |->
                    CommitmentSecrets(secret(n).value, secret(n).value_bf, secret(n).asset_bf)]
        domain == {secret(n).asset : n \in DOMAIN tx.input}
        r == take_blind_outputs(maker_output, tx, ins, domain, Len(tx.output))
    IN  [status |-> r.status,
         tx |-> IF r.status = "Ok" THEN [tx EXCEPT !.output = r.output] ELSE tx]

\* The inputs before which the signing loop stops with an error.
Unsignable(st, tx, from) ==
    {n \in from..Len(tx.input) :
        \/ ~Known(st, tx.input[n].previous_output)
        \/ ~HasPath(st, tx.input[n].previous_output)}

\* the signing loop starting at the maker's input
liquidex_take_sign_from_maker(st, tx) ==
    LET bad == Unsignable(st, tx, 1) IN
    IF bad # {}
    THEN Err("expected tx")
    ELSE Ok([tx EXCEPT !.input =
                [n \in DOMAIN tx.input |->
                    LET sg == internal_sign_elements(tx, n,
                                  ScriptOf(st, tx.input[n].previous_output), "ALL")
                    IN  [tx.input[n] EXCEPT !.script_sig = sg.script_sig,
                                            !.witness = sg.witness]]])

\* WalletCtx::liquidex_take_sign: the inputs after the maker's
liquidex_take_sign(st, tx) ==
    LET bad == Unsignable(st, tx, 2)
        first == CHOOSE n \in bad : \A m \in bad : n <= m
    IN
    IF bad # {}
    THEN IF ~Known(st, tx.input[first].previous_output)
         THEN Err("expected tx")
         ELSE Err("can't find derivation path")
    ELSE Ok([tx EXCEPT !.input =
                [n \in DOMAIN tx.input |->
                    IF n = 1 THEN tx.input[n]
                    ELSE LET sg == internal_sign_elements(tx, n,
                                       ScriptOf(st, tx.input[n].previous_output), "ALL")
                         IN  [tx.input[n] EXCEPT !.script_sig = sg.script_sig,
                                                 !.witness = sg.witness]]])

\* liquidex_take going on to sign the transaction as it is before blinding
TakeBlind_left_out ==
    /\ call.op = "liquidex_take" /\ call.pc = "blind"
    /\ call' = [release(read(call, store)) EXCEPT !.pc = "sign"]
    /\ UNCHANGED <<store, probe>>

\* liquidex_take_blind clearing the nonce of the maker's output
TakeBlind_maker_nonce_cleared ==
    /\ call.op = "liquidex_take" /\ call.pc = "blind"
    /\ LET b == liquidex_take_blind(store, call.maker_input, call.maker_output, call.tx)
           f == release(read(call, store))
       IN  call' = IF b.status = "Ok"
                   THEN [f EXCEPT !.pc = "sign", !.tx = [b.tx EXCEPT !.output[1].nonce = Null]]
                   ELSE Returned(f, b.status, "liquidex_take_blind")
    /\ UNCHANGED <<store, probe>>

\* liquidex_take_blind, under a read guard of its own taken while the read
\* guard of liquidex_take is held
TakeBlind ==
    /\ call.op = "liquidex_take" /\ call.pc = "blind"
    /\ LET b == liquidex_take_blind(store, call.maker_input, call.maker_output, call.tx)
           f == release(read(call, store))
       IN  call' = IF b.status = "Ok"
                   THEN [f EXCEPT !.pc = "sign", !.tx = b.tx]
                   ELSE Returned(f, b.status, "liquidex_take_blind")
    /\ UNCHANGED <<store, probe>>

\* liquidex_take_sign, under a read guard of its own as well
TakeSign ==
    /\ call.op = "liquidex_take" /\ call.pc = "sign"
    /\ LET sg == liquidex_take_sign(store, call.tx)
           f == release(read(call, store))
       IN  call' = IF sg.ok
                   THEN Returned([f EXCEPT !.tx = sg.val, !.ret = sg.val], "Ok", "")
                   ELSE Returned(f, "Err", sg.val)
    /\ UNCHANGED <<store, probe>>

(***************************************************************************)
(* get_address, the LiquiDEX asset set and liquidex_make                   *)
(***************************************************************************)
NoArgs == <<>>

\* WalletCtx::get_address as an operation of its own
GetAddress ==
    /\ call.pc \in {"idle", "redo"}
    /\ Callable(call, "get_address", NoArgs)
    /\ LET a == get_address(store) IN
       /\ store' = a.store
       /\ call' = Returned([with_write(Begin(call, "get_address", NoArgs))
                                EXCEPT !.ret = a.address], "Ok", "")
    /\ UNCHANGED probe

\* StoreMeta::liquidex_assets_insert: whether the asset was not yet present
liquidex_assets_insert(st, asset) ==
    [store |-> [st EXCEPT !.liquidex_assets = @ \cup {asset}],
     ret |-> asset \notin st.liquidex_assets]

\* StoreMeta::liquidex_assets_remove: whether the asset was present
liquidex_assets_remove(st, asset) ==
    [store |-> [st EXCEPT !.liquidex_assets = @ \ {asset}],
     ret |-> asset \in st.liquidex_assets]

\* WalletCtx::liquidex_assets_insert
LiquidexAssetsInsert ==
    /\ call.pc \in {"idle", "redo"}
    /\ \E asset \in Assets :
         /\ Callable(call, "liquidex_assets_insert", asset)
         /\ LET r == liquidex_assets_insert(store, asset) IN
            /\ store' = r.store
            /\ call' = Returned([with_write(Begin(call, "liquidex_assets_insert", asset))
                                     EXCEPT !.ret = r.ret], "Ok", "")
    /\ UNCHANGED probe

\* WalletCtx::liquidex_assets_remove
LiquidexAssetsRemove ==
    /\ call.pc \in {"idle", "redo"}
    /\ \E asset \in Assets :
         /\ Callable(call, "liquidex_assets_remove", asset)
         /\ LET r == liquidex_assets_remove(store, asset) IN
            /\ store' = r.store
            /\ call' = Returned([with_write(Begin(call, "liquidex_assets_remove", asset))
                                     EXCEPT !.ret = r.ret], "Ok", "")
    /\ UNCHANGED probe

\* The rates of LiquidexMakeOpt: numerator and denominator.
Rates == {<<0, 1>>, <<1, 2>>, <<1, 1>>}

LiquidexMakeOpts(st) ==
    [utxo : DOMAIN st.txo \cup {ForeignOutPoint}, asset_id : Assets, rate : Rates]

\* The transaction of liquidex_make before it is blinded: the chosen utxo
\* and an output of receive_value = (rate * value) as u64 of the asked asset.
liquidex_make_tx(st, address, opt) ==
    LET receive_value == (opt.rate[1] * Unblinded(st, opt.utxo).value) \div opt.rate[2]
    IN  add_output(add_input(NewTx, opt.utxo), address, receive_value, opt.asset_id)

\* liquidex_make building the proposal with the two secrets exchanged
liquidex_make_secrets_exchanged(st, address, opt, rand) ==
    IF ~Known(st, opt.utxo)
    THEN Err("cannot find unblinded values")
    ELSE
    LET unblinded_input == Unblinded(st, opt.utxo)
        b == liquidex_blind(master_blinding, liquidex_make_tx(st, address, opt), rand)
        sg == internal_sign_elements(b.val.tx, 1, ScriptOf(st, opt.utxo),
                                     "SINGLE|ANYONECANPAY")
    IN  IF ~b.ok THEN b
        ELSE IF ~HasPath(st, opt.utxo) THEN Err("can't find derivation path")
        ELSE Ok(LiquidexProposal([b.val.tx EXCEPT !.input[1].script_sig = sg.script_sig,
                                                  !.input[1].witness = sg.witness],
                                 b.val.secrets, unblinded_input))

\* liquidex_make after get_address, under the read guard: liquidex_blind,
\* the signature of input 0 and the proposal.
liquidex_make(st, address, opt, rand) ==
    IF ~Known(st, opt.utxo)
    THEN Err("cannot find unblinded values")
    ELSE
    LET unblinded_input == Unblinded(st, opt.utxo)
        b == liquidex_blind(master_blinding, liquidex_make_tx(st, address, opt), rand)
        sg == internal_sign_elements(b.val.tx, 1, ScriptOf(st, opt.utxo),
                                     "SINGLE|ANYONECANPAY")
    IN  IF ~b.ok THEN b
        ELSE IF ~HasPath(st, opt.utxo) THEN Err("can't find derivation path")
        ELSE Ok(LiquidexProposal([b.val.tx EXCEPT !.input[1].script_sig = sg.script_sig,
                                                  !.input[1].witness = sg.witness],
                                 unblinded_input, b.val.secrets))

\* liquidex_make: let address = self.get_address()?
MakeStart ==
    /\ call.pc \in {"idle", "redo"}
    /\ \E opt \in LiquidexMakeOpts(store) :
         /\ Callable(call, "liquidex_make", opt)
         /\ LET a == get_address(store) IN
            /\ store' = a.store
            /\ call' = [with_write(Begin(call, "liquidex_make", opt))
                            EXCEPT !.pc = "lock", !.ret = a.address]
    /\ UNCHANGED probe

\* let store_read = self.store.read()? and the rest of liquidex_make
MakeLock ==
    /\ call.op = "liquidex_make" /\ call.pc = "lock"
    /\ LET f == read(call, store)
           samples == IF Known(store, call.opt.utxo)
                      THEN blind_samples(master_blinding,
                                         liquidex_make_tx(store, call.ret, call.opt))
                      ELSE {0}
       IN  \E rand \in samples :
              LET r == liquidex_make(store, call.ret, call.opt, rand) IN
              call' = IF r.ok
                      THEN Returned([f EXCEPT !.ret = r.val, !.tx = transaction(r.val).val],
                                    "Ok", "")
                      ELSE Returned([f EXCEPT !.ret = <<>>], "Err", r.val)
    /\ UNCHANGED <<store, probe>>

Init == store \in Stores /\ call = Idle /\ probe = NoProbe

Next ==
    \/ CreateTxStart \/ CreateTxLock \/ CreateTxSelect \/ CreateTxChanges \/ CreateTxScramble \/ CreateTxFee
    \/ SignBlind \/ SignInput
    \/ TakeStart \/ TakeUtxos \/ TakeLock \/ TakeSelect \/ TakeChanges \/ TakeFee \/ TakeBlind \/ TakeSign
    \/ GetAddress \/ LiquidexAssetsInsert \/ LiquidexAssetsRemove \/ MakeStart \/ MakeLock

Spec == Init /\ [][Next]_vars

\* The thread of an operation keeps running: an iteration of a selection
\* loop that can be made is made.
InitFair ==
    /\ store \in {t \in Stores : Len(t.txo) <= MaxUtxos - 1}
    /\ call = Idle /\ probe = NoProbe

SpecFair ==
    InitFair /\ [][Next]_vars /\ WF_vars(CreateTxSelect) /\ WF_vars(TakeSelect)

(***************************************************************************)
(* The wallet among other threads and callers: a second thread calls       *)
(* get_address while an operation runs (SpecEnv), a caller repeats an      *)
(* operation that returned (SpecRedo), and the cache may lack the          *)
(* derivation path of an address.                                          *)
(***************************************************************************)
MaxIndex == 3

\* Small wallets; the path of receive address 2 may be missing where an
\* output pays it, and an asset may already be in the LiquiDEX asset set.
EnvStores ==
    {[st EXCEPT !.paths = p, !.liquidex_assets = a] :
        st \in {t \in Stores : Len(t.txo) <= MaxUtxos - 2},
        p \in {AddrIndexes, AddrIndexes \ {2}},
        a \in {{}, {"USDT"}}}

\* get_address of another thread: its write guard is granted only while
\* the thread of the operation holds no guard.
Writer ==
    /\ call.pc \notin {"idle", "redo", "done"}
    /\ call.held = <<>>
    /\ store.external < MaxIndex
    /\ store' = get_address(store).store
    /\ UNCHANGED <<call, probe>>

\* The operations that write to the store.
Mutators ==
    {"get_address", "liquidex_make", "liquidex_take",
     "liquidex_assets_insert", "liquidex_assets_remove"}

\* The caller repeats the operation that returned, with the same arguments;
\* `once` keeps the store as the first performance left it.
Redo ==
    /\ call.pc = "done" /\ ~call.redo /\ call.op \in Mutators
    /\ call' = [Idle EXCEPT !.op = call.op, !.opt = call.opt, !.pc = "redo",
                            !.redo = TRUE, !.once = store]
    /\ UNCHANGED <<store, probe>>

InitEnv ==
    /\ store \in EnvStores
    /\ store.paths # AddrIndexes => \E i \in DOMAIN store.txo : ~HasPath(store, i)
    /\ call = Idle /\ probe = NoProbe

NextEnv == Next \/ Writer

SpecEnv == InitEnv /\ [][NextEnv]_vars

\* The wallet after earlier calls of get_address: the external index of the
\* store is the number of addresses issued so far.
InitIndex ==
    /\ store \in {[st EXCEPT !.external = e] : st \in EnvStores, e \in 0 .. MaxIndex - 1}
    /\ store.paths = AddrIndexes /\ store.liquidex_assets = {}
    /\ call = Idle /\ probe = NoProbe

SpecIndex == InitIndex /\ [][NextEnv]_vars

NextRedo == Next \/ Redo

SpecRedo == InitEnv /\ [][NextRedo]_vars

(***************************************************************************)
(* The RwLock of the store between two threads.  A second thread asks for  *)
(* the write guard (get_address) while an operation runs: it is queued     *)
(* while the operation's thread holds a read guard.  std::sync::RwLock     *)
(* leaves open whether a read() of a thread that already holds a read      *)
(* guard is granted while a writer is queued or waits behind that writer.  *)
(* In this specification `probe` is the state of the second thread and of  *)
(* the wait of the first.                                                  *)
(***************************************************************************)
NoWriter == [fn |-> "writer", stage |-> "idle", reader |-> "running"]

\* self.store.write() of the second thread: queued
WriterQueues ==
    /\ probe.stage = "idle"
    /\ call.pc \notin {"idle", "redo", "done"}
    /\ store.external < MaxIndex
    /\ probe' = [probe EXCEPT !.stage = "queued"]
    /\ UNCHANGED <<store, call>>

\* the write guard granted once no read guard is held: get_address
WriterWrites ==
    /\ probe.stage = "queued" /\ probe.reader = "running"
    /\ call.held = <<>>
    /\ store' = get_address(store).store
    /\ probe' = [probe EXCEPT !.stage = "done"]
    /\ UNCHANGED call

\* The next step of the operation calls self.store.read() while its thread
\* holds a read guard: blind_tx, liquidex_take_blind, liquidex_take_sign.
NestedRead ==
    /\ call.held # <<>>
    /\ \/ call.op = "sign_with_xprv" /\ call.pc = "blind_tx"
       \/ call.op = "liquidex_take" /\ call.pc \in {"blind", "sign"}

\* read() behind a queued writer: the thread waits
ReaderWaits ==
    /\ NestedRead
    /\ probe.stage = "queued" /\ probe.reader = "running"
    /\ probe' = [probe EXCEPT !.reader = "waiting"]
    /\ UNCHANGED <<store, call>>

\* sign_with_xprv: let store_read = self.store.read()?
SignRead ==
    /\ call.op = "create_tx" /\ call.pc = "done" /\ call.result.status = "Ok"
    /\ call' = [read([call EXCEPT !.op = "sign_with_xprv", !.used = {},
                                  !.guards = {}, !.snap = {}], store)
                   EXCEPT !.pc = "blind_tx", !.result = NoResult]
    /\ UNCHANGED <<store, probe>>

\* sign_with_xprv: self.blind_tx(tx)?, with its own read guard
SignBlindTx ==
    /\ call.op = "sign_with_xprv" /\ call.pc = "blind_tx"
    /\ LET b == blind_tx(store, call.tx)
           g == release(read(call, store))
       IN  call' = IF ~b.ok
                   THEN Returned(g, "Err", b.val)
                   ELSE [g EXCEPT !.pc = "sign", !.tx = b.val]
    /\ UNCHANGED <<store, probe>>

InitLock ==
    /\ store \in {t \in Stores : Len(t.txo) <= MaxUtxos - 2}
    /\ call = Idle /\ probe = NoWriter

\* The steps of the operation's thread, taken while it does not wait.
Running == probe.reader = "running"

NextLock ==
    \/ Running /\ CreateTxStart
    \/ Running /\ CreateTxLock
    \/ Running /\ CreateTxSelect
    \/ Running /\ CreateTxChanges
    \/ Running /\ CreateTxScramble
    \/ Running /\ CreateTxFee
    \/ Running /\ SignRead
    \/ Running /\ SignBlindTx
    \/ Running /\ SignInput
    \/ Running /\ TakeStart
    \/ Running /\ TakeUtxos
    \/ Running /\ TakeLock
    \/ Running /\ TakeSelect
    \/ Running /\ TakeChanges
    \/ Running /\ TakeFee
    \/ Running /\ TakeBlind
    \/ Running /\ TakeSign
    \/ Running /\ GetAddress
    \/ Running /\ LiquidexAssetsInsert
    \/ Running /\ LiquidexAssetsRemove
    \/ Running /\ MakeStart
    \/ Running /\ MakeLock
    \/ WriterQueues
    \/ WriterWrites
    \/ ReaderWaits

SpecLock == InitLock /\ [][NextLock]_vars

(***************************************************************************)
(* What a transaction moves.  A confidential output is read through its   *)
(* commitments: the asset tag of its generator and the value its value    *)
(* commitment binds.                                                       *)
(***************************************************************************)
OutAsset(o) == IF o.asset.kind = "Explicit" THEN o.asset.v ELSE o.asset.v.tag

OutValue(o) ==
    IF o.value.kind = "Explicit" THEN o.value.v
    ELSE IF o.value.v.t = <<>> THEN 0 ELSE o.value.v.t[2]

\* The secrets of input n of the frame's transaction: the maker's declared
\* secrets for the maker's input of liquidex_take, the store's otherwise.
InSecrets(n) ==
    IF call.op = "liquidex_take" /\ n = 1 THEN call.maker_input
    ELSE Unblinded(store, call.tx.input[n].previous_output)

InSum(a) ==
    SumOver({n \in DOMAIN call.tx.input : InSecrets(n).asset = a},
            [n \in DOMAIN call.tx.input |-> InSecrets(n).value])

OutSum(a) ==
    SumOver({n \in DOMAIN call.tx.output : OutAsset(call.tx.output[n]) = a},
            [n \in DOMAIN call.tx.output |-> OutValue(call.tx.output[n])])

NonFeeOutSum(a) ==
    SumOver({n \in DOMAIN call.tx.output :
                OutAsset(call.tx.output[n]) = a /\ ~is_fee(call.tx.output[n])},
            [n \in DOMAIN call.tx.output |-> OutValue(call.tx.output[n])])

FeeOutputs(tx) == {n \in DOMAIN tx.output : is_fee(tx.output[n])}

\* A builder has returned a transaction.
BuiltOk ==
    /\ call.op \in {"create_tx", "liquidex_take"}
    /\ call.pc = "done"
    /\ call.result.status = "Ok"

\* C1: in every transaction returned by create_tx or liquidex_take, the
\* input values of every asset other than the policy asset sum to the
\* output values of that asset (input 0 and output 0 of a take counted with
\* the maker's declared secrets).
C1_NonPolicyBalance ==
    BuiltOk => \A a \in Assets \ {policy_asset} : InSum(a) = OutSum(a)

C1_Witness ==
    /\ BuiltOk /\ call.op = "liquidex_take"
    /\ \E k \in DOMAIN call.changes : call.changes[k][1] # policy_asset
    /\ \E a \in Assets \ {policy_asset} : InSum(a) > 0

\* C2: in every returned transaction the fee output's value, and the fee
\* create_tx reports, is the policy-asset input sum minus the policy-asset
\* sum of the other outputs.
C2_FeeBalance ==
    BuiltOk =>
        /\ \A n \in FeeOutputs(call.tx) :
              call.tx.output[n].value.v = InSum(policy_asset) - NonFeeOutSum(policy_asset)
        /\ FeeOutputs(call.tx) # {}
        /\ InSum(policy_asset) = OutSum(policy_asset)
        /\ call.op = "create_tx" =>
              call.fee_val = InSum(policy_asset) - NonFeeOutSum(policy_asset)

C2_Witness ==
    /\ BuiltOk /\ call.op = "liquidex_take"
    /\ NonFeeOutSum(policy_asset) > 0
    /\ call.fee_val > 0

\* C3: a returned transaction has exactly one fee output, the last output,
\* explicit in the policy asset; create_tx holds no fee output before the
\* scramble has been done.
C3_OneFeeOutputLast ==
    /\ BuiltOk =>
          /\ FeeOutputs(call.tx) = {Len(call.tx.output)}
          /\ call.tx.output[Len(call.tx.output)].asset = Explicit(policy_asset)
          /\ call.tx.output[Len(call.tx.output)].value.kind = "Explicit"
    /\ (call.op = "create_tx" /\ call.pc \in {"select", "changes", "scramble", "fee"}) =>
          FeeOutputs(call.tx) = {}

C3_Witness ==
    /\ BuiltOk /\ call.op = "create_tx"
    /\ Len(call.tx.output) >= 3
    /\ call.tx.output[1].script_pubkey[2] = "wallet"

\* The inputs that the wallet's coin selection put into the transaction.
SelectedInputs ==
    IF call.op = "liquidex_take" THEN 2..Len(call.tx.input) ELSE DOMAIN call.tx.input

\* C4: no two inputs selected for a returned transaction spend outputs that
\* pay the same script_pubkey.
C4_DistinctScripts ==
    BuiltOk =>
        \A m, n \in SelectedInputs :
            m # n => ScriptOf(store, call.tx.input[m].previous_output)
                        # ScriptOf(store, call.tx.input[n].previous_output)

FullyConfidential(o) ==
    /\ o.asset.kind = "Confidential"
    /\ o.value.kind = "Confidential"
    /\ o.nonce.kind = "Confidential"

\* C5: after liquidex_take or sign_with_xprv returned Ok, every output of the
\* transaction but the fee output has a confidential asset, value and nonce,
\* and the fee output is the only explicit one.
C5_OutputsConfidential ==
    (call.op \in {"liquidex_take", "sign_with_xprv"} /\ call.pc = "done"
        /\ call.result.status = "Ok") =>
        \A n \in DOMAIN call.tx.output :
            IF is_fee(call.tx.output[n])
            THEN n = Len(call.tx.output)
            ELSE FullyConfidential(call.tx.output[n])

C5_Witness ==
    /\ call.op = "sign_with_xprv" /\ call.pc = "done" /\ call.result.status = "Ok"
    /\ Len(call.tx.output) >= 3
    /\ \A n \in 1..(Len(call.tx.output) - 1) : FullyConfidential(call.tx.output[n])

\* What the taker's transaction offers and asks of an asset while the
\* selection loop runs: every output is explicit but the maker's.
Available(a) == InSum(a)

Required(a) ==
    OutSum(a) + (IF a = policy_asset
                 THEN estimated_fee(call.tx, call.fee_rate,
                        Cardinality({InSecrets(n).asset : n \in DOMAIN call.tx.input}))
                 ELSE 0)

\* C6: liquidex_needs is empty exactly when the inputs cover, asset by asset,
\* the outputs (and the estimated fee for the policy asset); otherwise it
\* holds exactly the assets with a positive shortfall, with the shortfall.
C6_NeedsAreShortfalls ==
    (call.op = "liquidex_take" /\ call.pc = "select") =>
        LET n == liquidex_needs(call.maker_input, call.maker_output, call.tx,
                                call.fee_rate, policy_asset, store)
        IN  /\ DOMAIN n = {a \in Assets : Required(a) > Available(a)}
            /\ \A a \in DOMAIN n : n[a] = Required(a) - Available(a)
            /\ (DOMAIN n = {}) <=> (\A a \in Assets : Available(a) >= Required(a))

C6_Witness ==
    /\ call.op = "liquidex_take" /\ call.pc = "select"
    /\ Len(call.tx.input) >= 2
    /\ \E a \in Assets \ {policy_asset} : Required(a) > Available(a)
    /\ Available(policy_asset) > Required(policy_asset)

\* The proposals that the verification of liquidex_take is to refuse: the
\* transaction is not one input and one output, the declared secrets are not
\* one per side, output 0 is not confidential, or the declared output
\* secrets do not open the commitments of output 0.
FailsVerification(proposal) ==
    \/ proposal.tx[1] # "hex"
    \/ Len(proposal.inputs) # 1
    \/ Len(proposal.outputs) # 1
    \/ LET tx == proposal.tx[2] IN
       \/ Len(tx.input) # 1
       \/ Len(tx.output) # 1
       \/ tx.output[1].asset.kind # "Confidential"
       \/ tx.output[1].value.kind # "Confidential"
       \/ LET d == proposal.outputs[1] IN
          \/ d.asset # tx.output[1].asset.v.tag
          \/ d.asset_blinder # tx.output[1].asset.v.g
          \/ d.amount # OutValue(tx.output[1])
          \/ (d.amount * d.asset_blinder + d.amount_blinder) % Q # tx.output[1].value.v.g

\* C9: liquidex_take of a proposal that fails verification returns an error
\* and no transaction, and leaves the store as it was: the external address
\* index is not advanced.
C9_RejectedLeavesStore ==
    [][(call.pc = "idle" /\ call'.op = "liquidex_take" /\ FailsVerification(call'.opt)) =>
          /\ store' = store
          /\ call'.pc = "done"
          /\ call'.result.status = "Err"
          /\ call'.tx = NewTx]_vars

C9_Witness ==
    /\ call.op = "liquidex_take" /\ call.pc = "done"
    /\ call.result.status = "Err"
    /\ call.opt \in MalformedProposals
    /\ call.opt.outputs # BaseProposal.outputs
    /\ FailsVerification(call.opt)
    /\ store.external = 0

\* The stage of a build at which the change outputs have been appended and
\* the fee output has not: the state the fee is computed in.
ChangeStage ==
    \/ call.op = "create_tx" /\ call.pc = "scramble"
    \/ call.op = "liquidex_take" /\ call.pc = "fee"
    \/ call.op = "liquidex_take" /\ call.pc = "done" /\ call.result.err = "liquidex_fee"

\* Inputs minus the outputs that are not change minus, for the policy asset,
\* the estimated fee.
Residual(a) ==
    LET k == Len(call.tx.output) - Len(call.changes)
        before == [call.tx EXCEPT !.output = SubSeq(@, 1, k)]
        out == SumOver({n \in 1..k : OutAsset(call.tx.output[n]) = a},
                       [n \in 1..k |-> OutValue(call.tx.output[n])])
        est == estimated_fee(before, call.fee_rate,
                   Cardinality({InSecrets(n).asset : n \in DOMAIN call.tx.input}))
    IN  InSum(a) - out - (IF a = policy_asset THEN est ELSE 0)

ChangeOf(a) == {k \in DOMAIN call.changes : call.changes[k][1] = a}

\* C10: when the policy-asset residual is below the dust threshold no
\* policy-asset change is added and the build completes, the residual going
\* to the fee; every other asset with a positive residual gets a change
\* output of exactly the residual.
C10_DustAbsorbed ==
    /\ ChangeStage =>
          /\ Residual(policy_asset) <= DUST_VALUE =>
                /\ ChangeOf(policy_asset) = {}
                /\ call.result.status # "panic"
          /\ \A a \in Assets \ {policy_asset} :
                Residual(a) > 0 =>
                    /\ Cardinality(ChangeOf(a)) = 1
                    /\ \A k \in ChangeOf(a) :
                          /\ call.changes[k][2] = Residual(a)
                          /\ LET o == call.tx.output[Len(call.tx.output) - Len(call.changes) + k]
                             IN  OutAsset(o) = a /\ OutValue(o) = Residual(a)
    /\ (BuiltOk /\ ChangeOf(policy_asset) = {}) =>
          call.fee_val = InSum(policy_asset) - NonFeeOutSum(policy_asset)

(***************************************************************************)
(* Failures, guards, snapshots and repeated operations                     *)
(***************************************************************************)
\* C11: when blinding or signing fails the build is aborted and nothing
\* partial is surfaced: after sign_with_xprv returned an error the caller's
\* transaction is as it was before the call (call.plain, what create_tx
\* returned: not blinded, no input signed), and a liquidex_take that did not
\* return Ok returns no transaction.
C11_FailureSurfacesNothing ==
    /\ (call.op = "sign_with_xprv" /\ call.pc = "done" /\ call.result.status = "Err")
            => call.tx = call.plain
    /\ (call.op = "liquidex_take" /\ call.pc = "done" /\ call.result.status # "Ok")
            => call.ret = <<>>

\* C12: the thread of an operation never holds a write guard and a read
\* guard of the store together: no set of guards it held at one time
\* contains both, in get_address, liquidex_make and liquidex_take included.
C12_NeverReadAndWrite ==
    /\ \A held \in call.guards : ~({"read", "write"} \subseteq held)
    /\ ~({"read", "write"} \subseteq {call.held[k] : k \in DOMAIN call.held})

C12_Witness ==
    /\ call.op \in {"liquidex_take", "liquidex_make"}
    /\ call.pc = "done" /\ call.result.status = "Ok"
    /\ {"write"} \in call.guards /\ {"read"} \in call.guards

\* C13: each operation consults one read-snapshot of the store: the read
\* guards of one create_tx, liquidex_take, liquidex_make or sign_with_xprv
\* call were all taken on the same state of the store, so that the utxo
\* list and the values read later reflect one state, also when another
\* thread writes while the operation runs.
C13_OneSnapshot == Cardinality(call.snap) <= 1

\* C14: the store mutations of the core operations are idempotent to redo:
\* when a caller has repeated get_address, liquidex_make, liquidex_take,
\* liquidex_assets_insert or liquidex_assets_remove with the same arguments,
\* the store is in the state in which the first performance left it.
C14_RedoIsIdempotent ==
    (call.redo /\ call.pc = "done") => store = call.once

(***************************************************************************)
(* The maker's part of a take, liquidex_make, selection and blinders       *)
(***************************************************************************)
\* The transaction of the proposal that liquidex_take was called with.
ProposalTx == transaction(call.opt).val

\* C15: liquidex_take preserves the maker's contribution: throughout the
\* take input 0 is the maker's input with its outpoint, script_sig and
\* witness, output 0 is the maker's output with its asset, value, nonce and
\* script_pubkey, and in the returned transaction every input after input 0
\* carries the taker's signature with sighash ALL over the final transaction.
C15_MakerPreserved ==
    (call.op = "liquidex_take" /\ call.tx # NewTx) =>
        /\ call.tx.input[1] = ProposalTx.input[1]
        /\ call.tx.output[1].asset = ProposalTx.output[1].asset
        /\ call.tx.output[1].value = ProposalTx.output[1].value
        /\ call.tx.output[1].nonce = ProposalTx.output[1].nonce
        /\ call.tx.output[1].script_pubkey = ProposalTx.output[1].script_pubkey
        /\ (call.pc = "done" /\ call.result.status = "Ok") =>
              \A n \in 2..Len(call.tx.input) :
                  call.tx.input[n].witness[1] = [sig |-> sighash(call.tx, n, "ALL")]

C15_Witness ==
    /\ call.op = "liquidex_take" /\ call.pc = "done" /\ call.result.status = "Ok"
    /\ Len(call.tx.input) >= 3
    /\ call.tx.input[1].previous_output # ForeignOutPoint
    /\ call.tx.output[1].witness # ProposalTx.output[1].witness

\* liquidex_make returned a proposal (call.ret).
MadeOk == call.op = "liquidex_make" /\ call.pc = "done" /\ call.result.status = "Ok"

\* C16: every proposal returned by liquidex_make has version 0, one input
\* secret and one output secret, and a transaction with one input, the
\* chosen utxo signed with SIGHASH_SINGLE|ANYONECANPAY, and one fully
\* confidential output whose asset and value commitments are those of the
\* declared output secrets; verify_output_commitment accepts it.
C16_MakeProposal ==
    MadeOk =>
        LET tx == transaction(call.ret).val
            out == to_txoutsecrets(call.ret.outputs[1])
            gen == new_blinded(out.asset, out.asset_bf)
        IN  /\ call.ret.version = 0
            /\ Len(call.ret.inputs) = 1 /\ Len(call.ret.outputs) = 1
            /\ transaction(call.ret).ok
            /\ Len(tx.input) = 1 /\ Len(tx.output) = 1
            /\ tx.input[1].previous_output = call.opt.utxo
            /\ tx.input[1].witness[1] = [sig |-> sighash(tx, 1, "SINGLE|ANYONECANPAY")]
            /\ FullyConfidential(tx.output[1])
            /\ tx.output[1].asset = Confidential(gen)
            /\ tx.output[1].value = Confidential(PedersenCommitment(out.value, out.value_bf, gen))
            /\ out.asset = call.opt.asset_id
            /\ verify_output_commitment(call.ret).ok

C16_Witness ==
    /\ MadeOk
    /\ call.ret.outputs[1].amount > 0
    /\ call.ret.outputs[1].amount < call.ret.inputs[1].amount
    /\ call.ret.outputs[1].asset # call.ret.inputs[1].asset

\* The operation is at the head of an iteration of its selection loop.
SelectStep == call.op \in {"create_tx", "liquidex_take"} /\ call.pc = "select"

\* The assets that the needs computation of the operation returns for tx.
NeededAssets(tx) ==
    IF call.op = "create_tx"
    THEN LET n == needs(tx, call.fee_rate, policy_asset, store)
         IN  {n[k][1] : k \in DOMAIN n}
    ELSE DOMAIN liquidex_needs(call.maker_input, call.maker_output, tx,
                               call.fee_rate, policy_asset, store)

\* The utxos of the asset that this build has not selected.
Unselected(a) == {i \in call.pool : store.txo[i].asset = a /\ i \notin call.used}

RECURSIVE add_inputs(_, _)
add_inputs(tx, S) ==
    IF S = {} THEN tx
    ELSE LET u == CHOOSE x \in S : TRUE
         IN  add_inputs(add_input(tx, u), S \ {u})

\* Some of the unselected utxos, added to the transaction, meet every need.
CanCover ==
    \E S \in SUBSET (call.pool \ call.used) :
        NeededAssets(add_inputs(call.tx, S)) = {}

InsufficientFunds == [status |-> "Err", err |-> "InsufficientFunds"]

\* C17: an iteration of the selection loop of create_tx or liquidex_take
\* leaves the loop exactly when no need remains; the utxo it adds is an
\* unselected utxo of a needed asset with the largest value among the
\* unselected utxos of that asset; it fails with InsufficientFunds only when
\* a needed asset has no unselected utxo, always when no needed asset has
\* one, and never when unselected utxos can cover all needs.
C17_LargestFirst ==
    [][SelectStep =>
        LET needed == NeededAssets(call.tx)
            last == call'.tx.input[Len(call'.tx.input)].previous_output
        IN  /\ (call'.pc = "changes") <=> (needed = {})
            /\ (call'.pc = "select") =>
                  /\ call'.tx = add_input(call.tx, last)
                  /\ call'.used = call.used \cup {last}
                  /\ \E a \in needed :
                        /\ last \in Unselected(a)
                        /\ \A j \in Unselected(a) :
                                store.txo[j].value <= store.txo[last].value
            /\ (call'.pc = "done") =>
                  /\ call'.result = InsufficientFunds
                  /\ \E a \in needed : Unselected(a) = {}
                  /\ ~CanCover
            /\ (needed # {} /\ \A a \in needed : Unselected(a) = {}) =>
                  call'.result = InsufficientFunds
    ]_vars

C17_Witness ==
    /\ call.op \in {"create_tx", "liquidex_take"} /\ call.pc = "done"
    /\ call.result = InsufficientFunds
    /\ Len(call.tx.input) >= 2
    /\ \E i \in call.used, j \in call.pool \ call.used :
            /\ i \in SelectedInputs \/ call.op = "create_tx"
            /\ store.txo[i].asset # store.txo[j].asset
    /\ \E i, j \in call.used :
            /\ store.txo[i].asset = store.txo[j].asset
            /\ store.txo[i].value > store.txo[j].value

\* C18: the policy asset is processed last by the selection loops of
\* create_tx and liquidex_take: while an asset other than the policy asset
\* still has a need, no utxo of the policy asset has been selected.
C18_PolicyLast ==
    (SelectStep /\ NeededAssets(call.tx) \ {policy_asset} # {}) =>
        \A n \in SelectedInputs :
            store.txo[call.tx.input[n].previous_output].asset # policy_asset

\* C19: the inputs of a transaction that create_tx or liquidex_take builds
\* have pairwise distinct outpoints, in every state of the build and in the
\* returned transaction; a maker's input that is one of the wallet's utxos
\* is therefore input 0 and no other input.
C19_DistinctOutpoints ==
    call.op \in {"create_tx", "liquidex_take"} =>
        \A m, n \in DOMAIN call.tx.input :
            m # n => call.tx.input[m].previous_output # call.tx.input[n].previous_output

C19_Witness ==
    /\ BuiltOk /\ call.op = "liquidex_take"
    /\ call.tx.input[1].previous_output \in call.pool
    /\ Len(call.tx.input) >= 2
    /\ \E n \in SelectedInputs :
          store.txo[call.tx.input[n].previous_output].asset
              = store.txo[call.tx.input[1].previous_output].asset

\* liquidex_take_blind has run on the transaction of the take.
TakeBlinded ==
    /\ call.op = "liquidex_take"
    /\ call.pc = "sign" \/ (call.pc = "done" /\ call.result.status = "Ok")

RECURSIVE BlindingSum(_, _)
\* The sum of value * asset blinder + value blinder over the first n
\* outputs that are not the fee, read from their value commitments.
BlindingSum(tx, n) ==
    IF n = 0 THEN 0
    ELSE (BlindingSum(tx, n - 1)
            + IF is_fee(tx.output[n]) THEN 0 ELSE tx.output[n].value.v.g) % Q

\* C20: in liquidex_take_blind the last output before the fee (index
\* out_num-2) and only it receives the balancing value blinder, computed
\* from the secrets of all inputs (the maker's declared ones at index 0) and
\* of all earlier outputs, the maker's output 0 included, so that the
\* blinding factors of the outputs sum to those of the inputs; the other
\* outputs after output 0 get the asset and value blinders derived from
\* (master_blinding, hash_prevouts, index), and so does the asset blinder
\* of the balanced output.
C20_OneBalancingBlinder ==
    TakeBlinded =>
        LET tx == call.tx
            out_num == Len(tx.output)
            hash == get_hash_prevout(tx)
            ins == [n \in DOMAIN tx.input |->
                        CommitmentSecrets(InSecrets(n).value, InSecrets(n).value_bf,
                                          InSecrets(n).asset_bf)]
            abf(n) == derive_blinder(master_blinding, hash, n - 1, TRUE)
            secrets(n) ==
                IF n = 1 THEN CommitmentSecrets(call.maker_output.value,
                                                call.maker_output.value_bf,
                                                call.maker_output.asset_bf)
                ELSE CommitmentSecrets(call.plain.output[n].value.v,
                                       derive_blinder(master_blinding, hash, n - 1, FALSE),
                                       abf(n))
            earlier == [n \in 1..(out_num - 2) |-> secrets(n)]
            last == out_num - 1
        IN  /\ is_fee(tx.output[out_num])
            /\ \A n \in 2..last :
                  tx.output[n].asset = Confidential(new_blinded(call.plain.output[n].asset.v, abf(n)))
            /\ \A n \in 2..(out_num - 2) :
                  tx.output[n].value =
                      Confidential(PedersenCommitment(secrets(n).value, secrets(n).value_bf,
                                                      tx.output[n].asset.v))
            /\ tx.output[last].value =
                  Confidential(PedersenCommitment(
                      call.plain.output[last].value.v,
                      compute_adaptive_blinding_factor(call.plain.output[last].value.v,
                                                       abf(last), ins, earlier),
                      tx.output[last].asset.v))
            /\ BlindingSum(tx, out_num) = SumSecrets(ins, Len(ins))

C20_Witness ==
    /\ TakeBlinded /\ call.pc = "done"
    /\ Len(call.tx.output) >= 5
    /\ Len(call.tx.input) >= 3

(***************************************************************************)
(* The validation of a create_tx request                                   *)
(***************************************************************************)
\* create_tx was called with call.opt, or sign_with_xprv on what it returned.
Requested == call.op \in {"create_tx", "sign_with_xprv"}

\* create_tx returned this error and built nothing.
Rejected(err) ==
    /\ call.op = "create_tx" /\ call.pc = "done"
    /\ call.result = [status |-> "Err", err |-> err]
    /\ call.tx = NewTx /\ call.plain = NewTx

WrongNetwork(opt) ==
    \E i \in DOMAIN opt.addressees : opt.addressees[i].address.params # address_params

ZeroAmount(opt) == \E i \in DOMAIN opt.addressees : opt.addressees[i].satoshi = 0

PolicyDust(opt) ==
    \E i \in DOMAIN opt.addressees :
        /\ opt.addressees[i].asset = policy_asset
        /\ opt.addressees[i].satoshi <= DUST_VALUE

C22_NetworkValidation ==
    [][(call.pc = "idle" /\ call'.op = "create_tx" /\ WrongNetwork(call'.opt)) =>
            /\ Rejected("InvalidAddress")'
            /\ store' = store
    ]_vars

C22_Witness ==
    /\ Rejected("InvalidAddress")
    /\ Len(call.opt.addressees) = 2
    /\ ZeroAmount(call.opt)
    /\ PolicyDust([call.opt EXCEPT !.addressees = SubSeq(@, 1, 1)])
    /\ ~WrongNetwork([call.opt EXCEPT !.addressees = SubSeq(@, 1, 1)])

\* C23: a create_tx request with an empty recipient list is rejected with
\* EmptyAddressees before the utxos are consulted (no read guard was taken,
\* no store state read, no utxo list held) and no transaction is built.
C23_EmptyAddressees ==
    (call.op = "create_tx" /\ call.opt.addressees = <<>>) =>
        /\ Rejected("EmptyAddressees")
        /\ call.guards = {} /\ call.snap = {} /\ call.pool = {}

C23_Witness ==
    /\ Rejected("EmptyAddressees")
    /\ call.opt.addressees = <<>>
    /\ Cardinality(utxos(store)) >= 2

(***************************************************************************)
(* The pure functions of liquidex.rs on their own: the arguments are       *)
(* drawn by the initial predicate and each action applies one function.   *)
(***************************************************************************)
EmptyStore ==
    [txo |-> <<>>, external |-> 0, internal |-> 0,
     paths |-> AddrIndexes, liquidex_assets |-> {}]

MasterBlindingKeys == {master_blinding, MakerKey}

\* amounts of one and of two significant bytes
RoundTripValues == {0, 1, 255, 256, 4660}

\* One-input, one-output transactions with an explicit asset and value, as
\* liquidex_make builds them, with and without a nonce.
MakerTxs ==
    LET with_nonce ==
            {add_output(add_input(NewTx, outpoint), address, value, asset) :
                outpoint \in {ForeignOutPoint, 1},
                address \in {MakerAddress, derive_address(<<0, 1>>)},
                value \in RoundTripValues, asset \in Assets}
    IN  with_nonce \cup {[tx EXCEPT !.output[1].nonce = Null] : tx \in with_nonce}

RoundTripArgs ==
    [fn : {"roundtrip"}, stage : {"args"},
     master_blinding_key : MasterBlindingKeys, unblind_key : MasterBlindingKeys,
     tx : MakerTxs, assets : SUBSET Assets,
     blinded : {Err("")}, result : {Err("")}]

\* liquidex_blind on the arguments, with any sample that ends its loop
ProbeBlind ==
    /\ probe.fn = "roundtrip" /\ probe.stage = "args"
    /\ \E rand \in blind_samples(probe.master_blinding_key, probe.tx) :
          probe' = [probe EXCEPT
                      !.stage = "blinded",
                      !.blinded = liquidex_blind(probe.master_blinding_key, probe.tx, rand)]
    /\ UNCHANGED <<store, call>>

\* liquidex_unblind on the transaction that liquidex_blind left
ProbeUnblind ==
    /\ probe.fn = "roundtrip" /\ probe.stage = "blinded" /\ probe.blinded.ok
    /\ probe' = [probe EXCEPT
                    !.stage = "unblinded",
                    !.result = liquidex_unblind(probe.unblind_key, probe.blinded.val.tx,
                                                0, probe.assets)]
    /\ UNCHANGED <<store, call>>

ProbeAmounts == {0, 1, 6}
ProbeBlinders == {0, 1, 5}

ProbeSecrets ==
    {LiquidexTxOutSecrets(a, abf, v, vbf) :
        a \in Assets, abf \in ProbeBlinders, v \in ProbeAmounts, vbf \in ProbeBlinders}

\* A proposal whose transaction output 0 commits to `committed` and whose
\* declared output secrets are `declared`.
ProbeProposal(committed, declared) ==
    LET gen == new_blinded(committed.asset, committed.asset_blinder)
        tx0 == add_output(add_input(NewTx, ForeignOutPoint), MakerAddress,
                          committed.amount, committed.asset)
        tx1 == [tx0 EXCEPT
                  !.output[1].asset = Confidential(gen),
                  !.output[1].value =
                      Confidential(PedersenCommitment(committed.amount,
                                                      committed.amount_blinder, gen))]
    IN  [version |-> 0, tx |-> tx_hex(tx1),
         inputs |-> <<from_txoutsecrets(MakerInput("USDT", 10))>>,
         outputs |-> <<declared>>]

VerifyArgs ==
    [fn : {"verify"}, stage : {"args"},
     committed : ProbeSecrets, declared : ProbeSecrets, result : {Err("")}]

ProbeVerify ==
    /\ probe.fn = "verify" /\ probe.stage = "args"
    /\ probe' = [probe EXCEPT
                    !.stage = "verified",
                    !.result = verify_output_commitment(
                                   ProbeProposal(probe.committed, probe.declared))]
    /\ UNCHANGED <<store, call>>

\* Transactions that liquidex_blind left, as they are and altered: without
\* nonce, with an explicit asset or value, with the encrypted amount
\* replaced by the key's owner, with a second input or output.
UnblindTxs ==
    LET plain == {add_output(add_input(NewTx, outpoint), MakerAddress, value, asset) :
                     outpoint \in {ForeignOutPoint, 1}, value \in {1, 256}, asset \in Assets}
        blinded == UNION {{liquidex_blind(k, tx, r).val.tx : r \in blind_samples(k, tx)} :
                              k \in MasterBlindingKeys, tx \in plain}
        altered(b) ==
            {b,
             [b EXCEPT !.output[1].nonce = Null],
             [b EXCEPT !.output[1].asset = Explicit(policy_asset)],
             [b EXCEPT !.output[1].value = Explicit(1)],
             [b EXCEPT !.output[1].nonce.v.x.text.value =
                            to_le_bytes(from_le_bytes(@) + 1, 8)],
             [b EXCEPT !.input = Append(@, @[1])],
             [b EXCEPT !.output = Append(@, @[1])],
             [b EXCEPT !.input = Append(@, @[1]), !.output = Append(@, @[1])]}
    IN  UNION {altered(b) : b \in blinded}

UnblindArgs ==
    [fn : {"unblind"}, stage : {"args"}, unblind_key : MasterBlindingKeys,
     tx : UnblindTxs, vout : {0, 1}, assets : SUBSET Assets, result : {Err("")}]

\* liquidex_unblind on a transaction found on the chain
ProbeUnblindTx ==
    /\ probe.fn = "unblind" /\ probe.stage = "args"
    /\ probe' = [probe EXCEPT
                    !.stage = "unblinded",
                    !.result = liquidex_unblind(probe.unblind_key, probe.tx, probe.vout,
                                                probe.assets)]
    /\ UNCHANGED <<store, call>>

(***************************************************************************)
(* Config::network (network.rs).                                           *)
(***************************************************************************)
\* The fields of Config that select the network.
Configs == [development : BOOLEAN, liquid : BOOLEAN, mainnet : BOOLEAN]

\* Config::network with the development flag matched first
network_development_first(self) ==
    IF self.development THEN [status |-> "Ok", network |-> "ElementsRegtest"]
    ELSE IF self.mainnet THEN [status |-> "Ok", network |-> "Liquid"]
    ELSE [status |-> "panic", network |-> "unsupported network"]

\* Config::network: the match on (mainnet, development)
network(self) ==
    IF self.mainnet THEN [status |-> "Ok", network |-> "Liquid"]
    ELSE IF self.development THEN [status |-> "Ok", network |-> "ElementsRegtest"]
    ELSE [status |-> "panic", network |-> "unsupported network"]

NetworkArgs ==
    [fn : {"network"}, stage : {"args"}, config : Configs,
     result : {[status |-> "none", network |-> ""]}]

ProbeNetwork ==
    /\ probe.fn = "network" /\ probe.stage = "args"
    /\ probe' = [probe EXCEPT !.stage = "returned", !.result = network(probe.config)]
    /\ UNCHANGED <<store, call>>

(***************************************************************************)
(* The JSON form of a LiquidexProposal (serde derives of liquidex.rs).     *)
(* A JSON object is a record of its members, a number is the sequence of   *)
(* its decimal digits, a hex string is the sequence of its digits.         *)
(***************************************************************************)
\* The decimal digits of an unsigned integer.
RECURSIVE to_decimal(_)
to_decimal(n) == IF n < 10 THEN <<n>> ELSE Append(to_decimal(n \div 10), n % 10)

RECURSIVE from_decimal_upto(_, _)
from_decimal_upto(digits, n) ==
    IF n = 0 THEN 0 ELSE 10 * from_decimal_upto(digits, n - 1) + digits[n]

from_decimal(digits) == from_decimal_upto(digits, Len(digits))

\* The bytes of a blinding factor or an asset id, most significant first
\* (two bytes stand for the thirty-two).
to_bytes(n) == <<n \div 256, n % 256>>

\* Display of blinding factors and asset ids: the hex digits of the bytes in
\* reverse order; FromStr reads them back in reverse order.
to_hex_reverse(bytes) ==
    <<bytes[2] \div 16, bytes[2] % 16, bytes[1] \div 16, bytes[1] % 16>>

from_hex_reverse(digits) ==
    IF Len(digits) # 4 THEN Err("bad hex string length")
    ELSE Ok(256 * (16 * digits[3] + digits[4]) + 16 * digits[1] + digits[2])

\* The bytes of the asset ids.
AssetIdBytes == [a \in Assets |->
    IF a = "LBTC" THEN 28418 ELSE IF a = "USDT" THEN 52745 ELSE 63032]

asset_from_hex(digits) ==
    LET n == from_hex_reverse(digits) IN
    IF ~n.ok THEN n
    ELSE IF \E a \in Assets : AssetIdBytes[a] = n.val
    THEN Ok(CHOOSE a \in Assets : AssetIdBytes[a] = n.val)
    ELSE Err("unknown asset")

\* Serialize for LiquidexTxOutSecrets
secrets_to_json(secrets) ==
    [asset |-> to_hex_reverse(to_bytes(AssetIdBytes[secrets.asset])),
     asset_blinder |-> to_hex_reverse(to_bytes(secrets.asset_blinder)),
     amount |-> to_decimal(secrets.amount),
     amount_blinder |-> to_hex_reverse(to_bytes(secrets.amount_blinder))]

\* Deserialize for LiquidexTxOutSecrets
secrets_from_json(object) ==
    IF DOMAIN object # {"asset", "asset_blinder", "amount", "amount_blinder"}
    THEN Err("missing field")
    ELSE
    LET asset == asset_from_hex(object.asset)
        asset_blinder == from_hex_reverse(object.asset_blinder)
        amount_blinder == from_hex_reverse(object.amount_blinder)
    IN  IF ~asset.ok THEN asset
        ELSE IF ~asset_blinder.ok THEN asset_blinder
        ELSE IF ~amount_blinder.ok THEN amount_blinder
        ELSE Ok(LiquidexTxOutSecrets(asset.val, asset_blinder.val,
                                     from_decimal(object.amount), amount_blinder.val))

\* to_string writing each blinder under the member name of the other
to_string_blinders_exchanged(proposal) ==
    LET exchanged(secrets) ==
            [secrets_to_json(secrets) EXCEPT
                !.asset_blinder = to_hex_reverse(to_bytes(secrets.amount_blinder)),
                !.amount_blinder = to_hex_reverse(to_bytes(secrets.asset_blinder))]
    IN  [version |-> to_decimal(proposal.version),
         tx |-> <<"string", proposal.tx>>,
         inputs |-> [i \in DOMAIN proposal.inputs |-> exchanged(proposal.inputs[i])],
         outputs |-> [i \in DOMAIN proposal.outputs |-> exchanged(proposal.outputs[i])]]

\* serde_json::to_string(&proposal)
to_string(proposal) ==
    [version |-> to_decimal(proposal.version),
     tx |-> <<"string", proposal.tx>>,
     inputs |-> [i \in DOMAIN proposal.inputs |-> secrets_to_json(proposal.inputs[i])],
     outputs |-> [i \in DOMAIN proposal.outputs |-> secrets_to_json(proposal.outputs[i])]]

\* serde_json::from_str::<LiquidexProposal>: version is #[serde(default)],
\* the other fields are required.
from_str(text) ==
    IF ~({"tx", "inputs", "outputs"} \subseteq DOMAIN text)
    THEN Err("missing field")
    ELSE
    LET ins == [i \in DOMAIN text.inputs |-> secrets_from_json(text.inputs[i])]
        outs == [i \in DOMAIN text.outputs |-> secrets_from_json(text.outputs[i])]
    IN  IF \E i \in DOMAIN ins : ~ins[i].ok
        THEN Err("invalid inputs")
        ELSE IF \E i \in DOMAIN outs : ~outs[i].ok
        THEN Err("invalid outputs")
        ELSE Ok([version |-> IF "version" \in DOMAIN text
                             THEN from_decimal(text.version) ELSE 0,
                 tx |-> text.tx[2],
                 inputs |-> [i \in DOMAIN ins |-> ins[i].val],
                 outputs |-> [i \in DOMAIN outs |-> outs[i].val]])

JsonInputSecrets ==
    {LiquidexTxOutSecrets(a, abf, 175, 10006) : a \in Assets, abf \in {0, 4660}}

JsonOutputSecrets ==
    {LiquidexTxOutSecrets(a, abf, v, vbf) :
        a \in Assets, abf \in {1, 255, 256}, v \in {0, 10, 175, 256}, vbf \in {5, 4096}}

JsonProposals ==
    {[version |-> v, tx |-> t, inputs |-> i, outputs |-> o] :
        v \in {0, 1, 12},
        t \in {<<"garbage">>,
                ProbeProposal(LiquidexTxOutSecrets("USDT", 1, 6, 5),
                              LiquidexTxOutSecrets("USDT", 1, 6, 5)).tx},
        i \in {<<x>> : x \in JsonInputSecrets}
                \cup {<<>>, <<LiquidexTxOutSecrets("GOLD", 1, 0, 2),
                              LiquidexTxOutSecrets("LBTC", 3, 1, 4)>>},
        o \in {<<x>> : x \in JsonOutputSecrets}}

\* The texts serde_json writes, and the same texts without the version
\* member, as the proposals of the first version are.
JsonTexts ==
    {to_string(p) : p \in JsonProposals}
        \cup {LET j == to_string(p)
               IN  [tx |-> j.tx, inputs |-> j.inputs, outputs |-> j.outputs] :
                   p \in {q \in JsonProposals : q.version = 0}}

JsonArgs ==
    [fn : {"json"}, stage : {"text"}, text : JsonTexts,
     proposal : {Err("")}, result : {Err("")}]

\* let proposal: LiquidexProposal = serde_json::from_str(proposal_str)
ProbeFromStr ==
    /\ probe.fn = "json" /\ probe.stage = "text"
    /\ probe' = [probe EXCEPT !.stage = "parsed", !.proposal = from_str(probe.text)]
    /\ UNCHANGED <<store, call>>

\* serde_json::from_str(&serde_json::to_string(&proposal))
ProbeToString ==
    /\ probe.fn = "json" /\ probe.stage = "parsed" /\ probe.proposal.ok
    /\ probe' = [probe EXCEPT !.stage = "reparsed",
                              !.text = to_string(probe.proposal.val),
                              !.result = from_str(to_string(probe.proposal.val))]
    /\ UNCHANGED <<store, call>>

(***************************************************************************)
(* Config::policy_asset_id                                                 *)
(***************************************************************************)
LIQUID_POLICY_ASSET_STR == "6f0279e9ed041c3d710a9f57d0c02928416460c4b722ae3457a11eec381c526d"

\* Config.policy_asset: None, the asset of Liquid, an asset of a regtest
\* chain, and a string that is not the hex form of an asset.
PolicyAssetOptions ==
    {<<>>, <<LIQUID_POLICY_ASSET_STR>>,
     <<"5ac9f65c0efcc4775e0baec4ec03abdde22473cd3cf33c0419ca290e0751b225">>,
     <<"not hex">>}

PolicyConfigs ==
    [development : BOOLEAN, liquid : BOOLEAN, mainnet : BOOLEAN,
     policy_asset : PolicyAssetOptions]

\* Config::policy_asset_id; asset_to_bin fails on a string that is not the
\* hex form of 32 bytes, and the bytes are written as the term of the string.
policy_asset_id(self) ==
    LET asset_to_bin(str) == IF str = "not hex" THEN Err("hex") ELSE Ok(<<"bin", str>>)
    IN  IF self.liquid
        THEN IF self.development
             THEN IF self.policy_asset # <<>>
                  THEN asset_to_bin(self.policy_asset[1])
                  ELSE Err("no policy asset")
             ELSE asset_to_bin(LIQUID_POLICY_ASSET_STR)
        ELSE Err("no policy asset")

PolicyArgs ==
    [fn : {"policy_asset_id"}, stage : {"args"}, config : PolicyConfigs,
     network : {[status |-> "none", network |-> ""]}, result : {Err("none")}]

ProbePolicyAsset ==
    /\ probe.fn = "policy_asset_id" /\ probe.stage = "args"
    /\ probe' = [probe EXCEPT !.stage = "returned",
                              !.network = network(probe.config),
                              !.result = policy_asset_id(probe.config)]
    /\ UNCHANGED <<store, call>>

(***************************************************************************)
(* WalletCtx::utxos on a cache of tracked transactions.  An outpoint is a   *)
(* pair <<txid, vout>>; a transaction of the cache is the set of outpoints  *)
(* its inputs reference and the number of its outputs.                      *)
(***************************************************************************)
CacheTxids == 1 .. 2

CacheOutPoints == {<<1, 0>>, <<1, 1>>, <<2, 0>>}

CacheSecrets == [asset : {"LBTC", "USDT"}, value : {DUST_VALUE - 1, 17}]

\* cache.all_txs: transaction 1 has two outputs; transaction 2, when the
\* cache has it, has one output and may spend outputs of transaction 1.
CacheTxs ==
    {[t \in dom |-> IF t = 1 THEN [input |-> {}, output |-> 2]
                    ELSE [input |-> ins, output |-> 1]] :
        dom \in {{1}, {1, 2}}, ins \in SUBSET {<<1, 0>>, <<1, 1>>}}

Caches ==
    [heights : SUBSET CacheTxids,
     all_txs : CacheTxs,
     unblinded : UNION {[dom -> CacheSecrets] : dom \in SUBSET CacheOutPoints}]

\* StoreMeta::spent: the outpoints referenced by an input of a transaction
\* of the cache.
spent(cache) == UNION {cache.all_txs[t].input : t \in DOMAIN cache.all_txs}

RECURSIVE tx_txos(_, _, _)
\* tx_txos: the outputs 0 .. n - 1 of a transaction in the order of the
\* outputs, without the spent ones, the ones without an unblinded record
\* and the policy-asset ones below DUST_VALUE
tx_txos(cache, tx_id, n) ==
    IF n = 0 THEN <<>>
    ELSE LET outpoint == <<tx_id, n - 1>>
             before == tx_txos(cache, tx_id, n - 1)
         IN  IF outpoint \in spent(cache) THEN before
             ELSE IF outpoint \notin DOMAIN cache.unblinded THEN before
             ELSE IF /\ cache.unblinded[outpoint].value < DUST_VALUE
                     /\ cache.unblinded[outpoint].asset = policy_asset
             THEN before
             ELSE Append(before, [outpoint |-> outpoint,
                                  unblinded |-> cache.unblinded[outpoint]])

RECURSIVE txos_extend(_, _, _)
\* txos after the first n transactions of an iteration of cache.heights
txos_extend(cache, order, n) ==
    IF n = 0 THEN <<>>
    ELSE txos_extend(cache, order, n - 1)
            \o tx_txos(cache, order[n], cache.all_txs[order[n]].output)

RECURSIVE sort_by_value(_, _)
\* sort_by(|a, b| b.unblinded.value.cmp(&a.unblinded.value)) of the first n
\* elements: a stable sort, equal values keep their order
sort_by_value(txos, n) ==
    IF n = 0 THEN <<>>
    ELSE LET sorted == sort_by_value(txos, n - 1)
             x == txos[n]
             k == Cardinality({j \in DOMAIN sorted :
                                  sorted[j].unblinded.value >= x.unblinded.value})
         IN  SubSeq(sorted, 1, k) \o <<x>> \o SubSeq(sorted, k + 1, Len(sorted))

\* utxos that leaves the spent outputs in
utxos_spent_kept(cache, order) ==
    LET none == [cache EXCEPT !.all_txs = [t \in DOMAIN @ |-> [@[t] EXCEPT !.input = {}]]]
        txos == txos_extend(none, order, Len(order))
    IN  IF \E t \in cache.heights : t \notin DOMAIN cache.all_txs
        THEN Err("txos no tx")
        ELSE Ok(sort_by_value(txos, Len(txos)))

\* WalletCtx::utxos on the cache, `order` being the order in which the
\* HashMap cache.heights is iterated.
utxos_sorted(cache, order) ==
    LET txos == txos_extend(cache, order, Len(order))
    IN  IF \E t \in cache.heights : t \notin DOMAIN cache.all_txs
        THEN Err("txos no tx")
        ELSE Ok(sort_by_value(txos, Len(txos)))

UtxosArgs ==
    [fn : {"utxos"}, stage : {"args"}, cache : Caches, result : {Err("none")}]

ProbeUtxos ==
    /\ probe.fn = "utxos" /\ probe.stage = "args"
    /\ \E order \in Orders(probe.cache.heights) :
          probe' = [probe EXCEPT !.stage = "returned",
                                 !.result = utxos_sorted(probe.cache, order)]
    /\ UNCHANGED <<store, call>>

InitPure ==
    /\ store = EmptyStore
    /\ call = Idle
    /\ \/ probe \in RoundTripArgs
       \/ probe \in VerifyArgs
       \/ probe \in UnblindArgs
       \/ probe \in NetworkArgs
       \/ probe \in JsonArgs
       \/ probe \in UtxosArgs
       \/ probe \in PolicyArgs

NextPure ==
    \/ ProbeBlind
    \/ ProbeUnblind
    \/ ProbeVerify
    \/ ProbeUnblindTx
    \/ ProbeNetwork
    \/ ProbeFromStr
    \/ ProbeToString
    \/ ProbeUtxos
    \/ ProbePolicyAsset

SpecPure == InitPure /\ [][NextPure]_vars

\* C7: liquidex_blind followed by liquidex_unblind with the same master
\* blinding key, vout 0 and an asset set that contains the output's asset
\* returns the asset, the amount and the two blinders liquidex_blind returned.
C7_BlindUnblindRoundTrip ==
    (/\ probe.fn = "roundtrip" /\ probe.stage = "unblinded"
     /\ probe.unblind_key = probe.master_blinding_key
     /\ probe.tx.output[1].asset.v \in probe.assets) =>
        /\ probe.result.ok
        /\ probe.result.val = probe.blinded.val.secrets
        /\ probe.result.val.asset = probe.tx.output[1].asset.v
        /\ probe.result.val.value = probe.tx.output[1].value.v

C7_Witness ==
    /\ probe.fn = "roundtrip" /\ probe.stage = "unblinded"
    /\ probe.unblind_key = probe.master_blinding_key
    /\ probe.tx.output[1].asset.v \in probe.assets
    /\ Cardinality(probe.assets) = 2
    /\ probe.tx.output[1].value.v = 4660
    /\ probe.result.ok
    /\ probe.result.val.value = 4660

\* The secrets differ in exactly one of asset, amount, asset_blinder and
\* amount_blinder.
SingleFieldChange(c, d) ==
    Cardinality({f \in {"asset", "amount", "asset_blinder", "amount_blinder"} :
                    c[f] # d[f]}) = 1

\* C8: verify_output_commitment accepts a one-input, one-output proposal
\* exactly when the generator and the commitment recomputed from the declared
\* output secrets are those of transaction output 0; a proposal is accepted
\* with the secrets its output commits to, and rejected when one of asset,
\* amount, asset_blinder, amount_blinder is changed.
C8_VerifyExact ==
    (probe.fn = "verify" /\ probe.stage = "verified") =>
        LET d == probe.declared
            c == probe.committed
            out == ProbeProposal(c, d).tx[2].output[1]
            gen == new_blinded(d.asset, d.asset_blinder)
        IN  /\ probe.result.ok <=>
                  /\ gen = out.asset.v
                  /\ PedersenCommitment(d.amount, d.amount_blinder, gen) = out.value.v
            /\ d = c => probe.result = Ok(to_txoutsecrets(d))
            /\ SingleFieldChange(c, d) => ~probe.result.ok

C8_Witness ==
    /\ probe.fn = "verify" /\ probe.stage = "verified"
    /\ SingleFieldChange(probe.committed, probe.declared)
    /\ probe.committed.amount = 0
    /\ probe.committed.asset_blinder # probe.declared.asset_blinder
    /\ probe.result = Err("LiquiDEX error unexpected commitments")

(***************************************************************************)
(* liquidex_unblind on arbitrary transactions                              *)
(***************************************************************************)
\* liquidex_unblind returned for the arguments of the probe.
Unblinded1 == probe.fn = "unblind" /\ probe.stage = "unblinded"

\* vout is an index of the outputs and of the inputs.
IndexValid == probe.vout + 1 <= Len(probe.tx.output) /\ probe.vout + 1 <= Len(probe.tx.input)

ProbeOut == probe.tx.output[probe.vout + 1]

ProbePrevout == probe.tx.input[probe.vout + 1].previous_output

\* The decryption of the nonce of output vout under the key of the caller.
ProbeText ==
    decrypt(_liquidex_aes_key(probe.unblind_key, ProbeOut.script_pubkey),
            _liquidex_aes_nonce(probe.unblind_key, ProbePrevout, ProbeOut.asset,
                                ProbeOut.value, ProbeOut.script_pubkey).val,
            ProbeOut.nonce.v.x)

\* The decrypted value and the derived value blinder do not reproduce
\* the value commitment of the output.
ValueMismatch ==
    /\ ProbeText.ok
    /\ PedersenCommitment(from_le_bytes(ProbeText.val.value),
                          liquidex_derive_value_blinder(probe.unblind_key, ProbePrevout),
                          ProbeOut.asset.v) # ProbeOut.value.v

\* No candidate asset regenerates the asset commitment of the output.
NoAssetMatch ==
    \A c \in probe.assets :
        new_blinded(c, liquidex_derive_asset_blinder(probe.unblind_key, ProbePrevout))
            # ProbeOut.asset.v

\* C24: liquidex_unblind returns an error when vout is not an index of both
\* the outputs and the inputs, when output vout is not confidential in
\* asset, value and nonce, when the decrypted value with the derived value
\* blinder does not reproduce the value commitment, or when no candidate
\* asset regenerates the asset commitment; the secrets it does return are a
\* candidate asset and a value that regenerate both commitments.
C24_UnblindErrors ==
    Unblinded1 =>
        /\ ~IndexValid => ~probe.result.ok
        /\ (IndexValid /\ ~FullyConfidential(ProbeOut)) => ~probe.result.ok
        /\ (IndexValid /\ FullyConfidential(ProbeOut) /\ ValueMismatch) => ~probe.result.ok
        /\ (IndexValid /\ FullyConfidential(ProbeOut) /\ NoAssetMatch) => ~probe.result.ok
        /\ probe.result.ok =>
              LET r == probe.result.val
                  gen == new_blinded(r.asset, r.asset_bf)
              IN  /\ r.asset \in probe.assets
                  /\ ProbeOut.asset = Confidential(gen)
                  /\ ProbeOut.value = Confidential(PedersenCommitment(r.value, r.value_bf, gen))

C24_Witness ==
    /\ Unblinded1 /\ IndexValid /\ FullyConfidential(ProbeOut)
    /\ ValueMismatch /\ ~NoAssetMatch
    /\ probe.result = Err("LiquiDEX error value commitment")

(***************************************************************************)
(* The blinders of a maker output                                          *)
(***************************************************************************)
\* The output indexes a transaction of the wallet can have.
RealVouts == 0 .. 7

\* The pairs (asset blinder, value blinder) of all the runs of liquidex_blind
\* with a key on transactions that spend an outpoint.
MakerBlinders(master_blinding_key, outpoint) ==
    UNION {{LET s == liquidex_blind(master_blinding_key, tx, r).val.secrets
            IN  <<s.asset_bf, s.value_bf>> : r \in blind_samples(master_blinding_key, tx)} :
               tx \in {t \in MakerTxs : /\ t.input[1].previous_output = outpoint
                                         /\ t.output[1].value.v \in {0, 4660}}}

\* The transactions of a taker that spend an outpoint, alone or with another.
TakerSpends(outpoint) ==
    {add_input(NewTx, outpoint)}
        \cup {add_input(add_input(NewTx, outpoint), o) : o \in {ForeignOutPoint, 1, 2} \ {outpoint}}
        \cup {add_input(add_input(NewTx, o), outpoint) : o \in {ForeignOutPoint, 1, 2} \ {outpoint}}

\* C25: the asset blinder and the value blinder that liquidex_blind gives
\* are the same in every run with the same master blinding key and the same
\* spent outpoint, whatever the asset, the value, the script and the
\* randomness; they are derived with vout u32::MAX, which is no output
\* index, and differ from every blinder the same key derives for a real
\* output index of a transaction spending that outpoint.
C25_MakerBlindersDeterministic ==
    (probe.fn = "roundtrip" /\ probe.stage = "blinded" /\ probe.blinded.ok) =>
        LET s == probe.blinded.val.secrets
            k == probe.master_blinding_key
            outpoint == probe.tx.input[1].previous_output
        IN  /\ MakerBlinders(k, outpoint) = {<<s.asset_bf, s.value_bf>>}
            /\ s.asset_bf = derive_blinder(k, hash_prevout(outpoint), U32_MAX, TRUE)
            /\ s.value_bf = derive_blinder(k, hash_prevout(outpoint), U32_MAX, FALSE)
            /\ U32_MAX \notin RealVouts
            /\ \A tx \in TakerSpends(outpoint), i \in RealVouts, b \in BOOLEAN :
                  derive_blinder(k, get_hash_prevout(tx), i, b) \notin {s.asset_bf, s.value_bf}

C25_Witness ==
    /\ probe.fn = "roundtrip" /\ probe.stage = "blinded" /\ probe.blinded.ok
    /\ probe.blinded.val.secrets.asset = "GOLD"
    /\ probe.blinded.val.secrets.value = 4660
    /\ probe.tx.output[1].script_pubkey # MakerAddress.script_pubkey
    /\ Cardinality(blind_samples(probe.master_blinding_key, probe.tx)) > 1
    /\ probe.blinded.val.tx.output[1].nonce.v.x.text.rand
          # (CHOOSE r \in blind_samples(probe.master_blinding_key, probe.tx) : TRUE)

(***************************************************************************)
(* The addresses of the change outputs                                     *)
(***************************************************************************)
\* The step of create_tx or liquidex_take that adds the change outputs.
ChangesStep ==
    /\ call.op \in {"create_tx", "liquidex_take"}
    /\ call.pc = "changes"
    /\ call'.pc \in {"scramble", "fee"}

\* The output a change of (asset, satoshi) to path [1, index] is.
ChangeOutput(index, change) ==
    add_output(NewTx, derive_address(<<1, index>>), change[2], change[1]).output[1]

\* C26: the k-th change output (k = 0, 1, ...) of create_tx and of
\* liquidex_take pays to the address of path [1, internal + k + 1]: the
\* change outputs of one transaction have pairwise distinct addresses, all
\* of an index greater than the internal index of the store.
C26_FreshChangeAddresses ==
    [][ChangesStep =>
        LET old == Len(call.tx.output)
            n == Len(call'.changes)
            new(k) == call'.tx.output[old + k + 1]
        IN  /\ Len(call'.tx.output) = old + n
            /\ SubSeq(call'.tx.output, 1, old) = call.tx.output
            /\ \A k \in 0 .. n - 1 :
                  /\ new(k) = ChangeOutput(store.internal + k + 1, call'.changes[k + 1])
                  /\ store.internal + k + 1 > store.internal
            /\ \A j, k \in 0 .. n - 1 :
                  j # k => new(j).script_pubkey # new(k).script_pubkey]_vars

C26_Witness ==
    /\ call.op = "liquidex_take" /\ call.pc = "fee"
    /\ Len(call.changes) = 2

C26_WitnessCreate ==
    /\ call.op = "create_tx" /\ call.pc = "scramble"
    /\ Len(call.changes) = 2

(***************************************************************************)
(* A build whose inputs cover outputs and estimated fee exactly            *)
(***************************************************************************)
\* The fee estimated at STEP 3 for the transaction of the frame.
EstimatedFee ==
    estimated_fee(call.tx, call.fee_rate,
                  Cardinality({a \in Assets : InSum(a) > 0}))

\* The inputs of the frame's transaction equal, asset by asset, its outputs
\* plus the estimated fee.
ExactCover ==
    \A a \in Assets :
        InSum(a) = OutSum(a) + (IF a = policy_asset THEN EstimatedFee ELSE 0)

\* C27: when the selected inputs equal the required outputs plus the
\* estimated fee, the build adds no change output, and a transaction built
\* without changes has the requested outputs (in liquidex_take the maker's
\* output and the receive output) and the fee output only.
C27_ExactCoverNoChange ==
    /\ [][(ChangesStep /\ ExactCover) =>
            /\ call'.changes = <<>>
            /\ call'.tx = call.tx]_vars
    /\ [](BuiltOk /\ call.changes = <<>> =>
            /\ Len(call.tx.output)
                  = (IF call.op = "create_tx" THEN Len(call.opt.addressees) ELSE 2) + 1
            /\ FeeOutputs(call.tx) = {Len(call.tx.output)})

C27_Witness ==
    /\ call.op = "create_tx" /\ call.pc = "changes"
    /\ ExactCover
    /\ Len(call.tx.input) = 1

C27_WitnessTake ==
    /\ call.op = "liquidex_take" /\ call.pc = "changes"
    /\ ExactCover

(***************************************************************************)
(* Config::network                                                         *)
(***************************************************************************)
\* C28: Config::network returns Liquid when mainnet is true, whatever
\* development is; ElementsRegtest when mainnet is false and development is
\* true; and panics, returning no network, when both are false.  The liquid
\* flag plays no part.
C28_Network ==
    (probe.fn = "network" /\ probe.stage = "returned") =>
        LET c == probe.config
            r == probe.result
        IN  /\ c.mainnet => (r.status = "Ok" /\ r.network = "Liquid")
            /\ (~c.mainnet /\ c.development) =>
                  (r.status = "Ok" /\ r.network = "ElementsRegtest")
            /\ (~c.mainnet /\ ~c.development) =>
                  (r.status = "panic" /\ r.network \notin {"Liquid", "ElementsRegtest"})

C28_Witness ==
    /\ probe.fn = "network" /\ probe.stage = "returned"
    /\ probe.config.mainnet /\ probe.config.development
    /\ probe.result.network = "Liquid"

(***************************************************************************)
(* The order of the build steps                                            *)
(***************************************************************************)
\* The inputs that carry a signature.
Signed(tx) == {n \in DOMAIN tx.input : tx.input[n].witness # <<>>}

NonFee(tx) == DOMAIN tx.output \ FeeOutputs(tx)

\* The outputs whose value is a commitment.
Committed(tx) == {n \in DOMAIN tx.output : tx.output[n].value.kind = "Confidential"}

\* What a step does to the transaction of the frame.
AddsInput == Len(call'.tx.input) > Len(call.tx.input)
AddsNonFee == Cardinality(NonFee(call'.tx)) > Cardinality(NonFee(call.tx))
AddsFee == Cardinality(FeeOutputs(call'.tx)) > Cardinality(FeeOutputs(call.tx))
Blinds == Cardinality(Committed(call'.tx)) > Cardinality(Committed(call.tx))
Signs == Cardinality(Signed(call'.tx)) > Cardinality(Signed(call.tx))

\* The steps of a standard spend, create_tx and then sign_with_xprv.
SpendOrder ==
    /\ (call.op = "create_tx" /\ call'.op = "create_tx") =>
          /\ AddsInput =>
                /\ call.pc = "select"
                /\ call.tx.output = add_outputs(NewTx, call.opt.addressees,
                                                Len(call.opt.addressees)).output
          /\ (AddsNonFee /\ call.pc # "idle") =>
                /\ call.pc = "changes"
                /\ call'.tx.input = call.tx.input
                /\ call'.pc = "scramble"
          /\ call.pc = "scramble" =>
                /\ Len(call.tx.output) = Len(call.opt.addressees) + Len(call.changes)
                /\ FeeOutputs(call.tx) = {}
                /\ call'.tx \in scramble(call.tx)
                /\ call'.pc = "fee"
          /\ AddsFee =>
                /\ call.pc = "fee"
                /\ call'.tx.input = call.tx.input
                /\ SubSeq(call'.tx.output, 1, Len(call.tx.output)) = call.tx.output
          /\ ~Blinds /\ ~Signs
    /\ call'.op = "sign_with_xprv" =>
          /\ Blinds => (call.op = "create_tx" /\ Signed(call'.tx) = {})
          /\ Signs =>
                /\ call.op = "sign_with_xprv"
                /\ Committed(call.tx) = NonFee(call.tx)
                /\ call'.tx.output = call.tx.output
          /\ ~AddsInput /\ ~AddsNonFee /\ ~AddsFee

\* The steps of liquidex_take.
TakeOrder ==
    call'.op = "liquidex_take" =>
        /\ call.pc \in {"idle", "redo"} =>
              IF verify_output_commitment(call'.opt).ok /\ call'.pc # "done"
              THEN /\ Len(call'.tx.output) = 2
                   /\ call'.tx.output[2].script_pubkey[2] = "wallet"
              ELSE /\ call'.tx = NewTx
                   /\ store' = store
        /\ (call.pc \notin {"idle", "redo"} /\ AddsFee) =>
              /\ call.pc = "fee"
              /\ call'.tx.output = Append(call.tx.output, call'.tx.output[Len(call'.tx.output)])
              /\ Committed(call.tx) \subseteq {1}
              /\ call'.pc = "blind"
        /\ (call.pc \notin {"idle", "redo"} /\ Blinds) =>
              /\ call.pc = "blind"
              /\ FeeOutputs(call.tx) = {Len(call.tx.output)}
              /\ Signed(call'.tx) = Signed(call.tx)
              /\ Signed(call.tx) \subseteq {1}
        /\ (call.pc \notin {"idle", "redo"} /\ Signs) =>
              /\ call.pc = "sign"
              /\ Committed(call.tx) = NonFee(call.tx)
              /\ call'.tx.output = call.tx.output

\* Every signature of the wallet is over the outputs of the transaction.
SignedFinal ==
    (call.op \in {"sign_with_xprv", "liquidex_take"} /\ call.pc = "done"
        /\ call.result.status = "Ok") =>
        \A n \in Signed(call.tx) :
            (call.op = "liquidex_take" /\ n = 1)
                \/ call.tx.input[n].witness[1].sig[3] = call.tx.output

\* C29: in a standard spend the inputs are all selected before a change
\* output is added, the changes are added before the scramble, the scramble
\* is done before the fee output is added, and sign_with_xprv blinds the
\* outputs before it signs an input; liquidex_take verifies the maker's
\* commitment before it adds the receive output, appends the fee output
\* before blinding and blinds every output after the maker's before it signs
\* an input; every signature of the wallet is over the final outputs.
C29_StepOrder ==
    /\ [][SpendOrder /\ TakeOrder]_vars
    /\ []SignedFinal

C29_Witness ==
    /\ call.op = "liquidex_take" /\ call.pc = "done" /\ call.result.status = "Ok"
    /\ Cardinality(Signed(call.tx)) >= 3
    /\ Cardinality(Committed(call.tx)) >= 3
    /\ FeeOutputs(call.tx) = {Len(call.tx.output)}

C29_WitnessSpend ==
    /\ call.op = "sign_with_xprv" /\ call.pc = "done" /\ call.result.status = "Ok"
    /\ Cardinality(Signed(call.tx)) >= 2
    /\ Cardinality(Committed(call.tx)) >= 3

(***************************************************************************)
(* The JSON round trip of a proposal                                       *)
(***************************************************************************)
\* C30: a LiquidexProposal written to JSON and read back is the proposal
\* it was: same version, transaction hex, input secrets and output secrets.
C30_JsonRoundTrip ==
    (probe.fn = "json" /\ probe.stage = "reparsed") =>
        /\ probe.result.ok
        /\ probe.result.val.version = probe.proposal.val.version
        /\ probe.result.val.tx = probe.proposal.val.tx
        /\ probe.result.val.inputs = probe.proposal.val.inputs
        /\ probe.result.val.outputs = probe.proposal.val.outputs
        /\ probe.result = probe.proposal

C30_Witness ==
    /\ probe.fn = "json" /\ probe.stage = "reparsed"
    /\ probe.result.ok
    /\ probe.result.val.version = 12
    /\ probe.result.val.tx # <<"garbage">>
    /\ Len(probe.result.val.inputs) = 1
    /\ probe.result.val.inputs[1].asset_blinder = 4660
    /\ probe.result.val.outputs[1].amount = 175
    /\ probe.result.val.outputs[1].asset_blinder = 256
    /\ verify_output_commitment(probe.result.val).ok = FALSE

C30_WitnessDefaultVersion ==
    /\ probe.fn = "json" /\ probe.stage = "reparsed"
    /\ probe.result.ok
    /\ probe.result.val.version = 0
    /\ Len(probe.result.val.inputs) = 2
    /\ "version" \in DOMAIN probe.text

(***************************************************************************)
(* The maker reading its output in the completed transaction               *)
(***************************************************************************)
\* liquidex_take returned the completion of a proposal that a maker made
\* with liquidex_blind under MakerKey.
TakenFromMaker ==
    /\ BuiltOk /\ call.op = "liquidex_take"
    /\ call.opt \in HonestProposals \cup OwnProposals(store)

\* C31: in the transaction liquidex_take returns for a proposal of a maker,
\* input 0 has the maker's outpoint and output 0 the maker's commitments,
\* nonce and script, and the maker's liquidex_unblind at vout 0, with any
\* asset set that contains the requested asset, returns the output secrets
\* of the proposal.
C31_MakerUnblindsTaken ==
    TakenFromMaker =>
        /\ call.tx.input[1].previous_output = ProposalTx.input[1].previous_output
        /\ call.tx.output[1].asset = ProposalTx.output[1].asset
        /\ call.tx.output[1].value = ProposalTx.output[1].value
        /\ call.tx.output[1].nonce = ProposalTx.output[1].nonce
        /\ call.tx.output[1].script_pubkey = ProposalTx.output[1].script_pubkey
        /\ \A assets \in SUBSET Assets :
              call.opt.outputs[1].asset \in assets =>
                  liquidex_unblind(MakerKey, call.tx, 0, assets)
                      = Ok(to_txoutsecrets(call.opt.outputs[1]))

C31_Witness ==
    /\ TakenFromMaker
    /\ Len(call.tx.input) >= 3
    /\ Len(call.tx.output) >= 4
    /\ call.opt.outputs[1].amount > 0
    /\ liquidex_unblind(MakerKey, call.tx, 0, Assets).ok
    /\ ~liquidex_unblind(MakerKey, call.tx, 1, Assets).ok

(***************************************************************************)
(* Read guards taken again behind a queued writer                          *)
(***************************************************************************)
\* The operation's thread waits for a read guard behind the writer, and
\* the writer waits for the read guard that thread holds.
ReaderBehindWriter ==
    /\ probe.fn = "writer"
    /\ probe.stage = "queued" /\ probe.reader = "waiting"
    /\ call.held # <<>>

\* C32: sign_with_xprv and liquidex_take take further read guards while
\* they hold their first one; next to a thread that asks for the write
\* guard, no state is reached in which the operation waits for a read guard
\* behind the queued writer while the writer waits for the operation's
\* outer read guard.
C32_NoReaderBehindWriter == ~ReaderBehindWriter

(***************************************************************************)
(* The assertion of liquidex_changes                                       *)
(***************************************************************************)
\* C33: whenever liquidex_take reaches liquidex_changes, that is when
\* liquidex_needs has returned empty for a proposal that
\* verify_output_commitment accepted, every asset that has an output has an
\* input as well, so that assert!(outputs_asset_amounts.is_empty()) holds
\* and liquidex_take does not panic there.
C33_ChangesAssertion ==
    /\ (call.op = "liquidex_take" /\ call.pc = "changes") =>
          DOMAIN outputs(call.maker_output, call.tx)
              \subseteq DOMAIN inputs(call.maker_input, call.tx, store)
    /\ (call.op = "liquidex_take" /\ call.pc = "done") =>
          call.result # [status |-> "panic", err |-> "liquidex_changes"]

(***************************************************************************)
(* The outputs that reach liquidex_take_blind                              *)
(***************************************************************************)
\* The two shapes of output n that the match of liquidex_take_blind handles.
HandledShape(tx, n) ==
    LET o == tx.output[n] IN
    \/ /\ n = 1
       /\ o.value.kind = "Confidential" /\ o.asset.kind = "Confidential"
       /\ o.nonce.kind = "Confidential"
    \/ /\ o.value.kind = "Explicit" /\ o.asset.kind = "Explicit"
       /\ o.nonce.kind = "Confidential"

\* C34: for every proposal that verify_output_commitment accepted, every
\* non-fee output that reaches liquidex_take_blind has one of the two
\* handled shapes, and liquidex_take does not end in the panic arm of the
\* match.
C34_BlindShapes ==
    /\ (call.op = "liquidex_take" /\ call.pc = "blind") =>
          \A n \in NonFee(call.tx) : HandledShape(call.tx, n)
    /\ (call.op = "liquidex_take" /\ call.pc = "done") =>
          call.result # [status |-> "panic", err |-> "liquidex_take_blind"]

(***************************************************************************)
(* The selection loops end                                                 *)
(***************************************************************************)
\* The frame is at the head of the selection loop of create_tx or
\* liquidex_take.
Selecting == call.op \in {"create_tx", "liquidex_take"} /\ call.pc = "select"

\* The iterations of the loop made so far: one for each input added.
Iterations == Len(call.tx.input) - (IF call.op = "liquidex_take" THEN 1 ELSE 0)

\* C35: an iteration of the selection loop of create_tx or liquidex_take
\* ends the loop (no needs), fails with InsufficientFunds, or adds as input
\* a utxo that was not used before; the iterations made never exceed the
\* number of utxos, so the loop is left after at most that number plus one.
C35_SelectionTerminates ==
    /\ [][Selecting =>
            \/ call'.pc = "changes" /\ call'.tx = call.tx
            \/ call'.pc = "done" /\ call'.result = [status |-> "Err", err |-> "InsufficientFunds"]
            \/ /\ call'.pc = "select"
               /\ \E utxo \in call.pool \ call.used :
                     /\ call'.used = call.used \cup {utxo}
                     /\ call'.tx = add_input(call.tx, utxo)]_vars
    /\ [](Selecting =>
            /\ call.used \subseteq call.pool
            /\ Iterations <= Cardinality(call.used)
            /\ Iterations <= Cardinality(utxos(store)))
    /\ (Selecting ~> ~Selecting)

C35_Witness ==
    /\ Selecting
    /\ Iterations = MaxUtxos - 1
    /\ call.used = call.pool

(***************************************************************************)
(* The arithmetic of liquidex_take after the selection loop                *)
(***************************************************************************)
\* The transaction of the frame as it left the selection loop: the maker's
\* output and the receive output, without changes and fee.
Selected == [call.tx EXCEPT !.output = SubSeq(@, 1, 2)]

\* The estimated fee liquidex_take passes to liquidex_changes.
TakeEstimate ==
    estimated_fee(Selected, call.fee_rate,
                  liquidex_estimated_changes(call.maker_input, Selected, store))

TakeIns == inputs(call.maker_input, call.tx, store)
TakeOuts == outputs(call.maker_output, call.tx)

\* The policy asset left over by the selected inputs after the outputs and
\* the estimated fee.
PolicyResidual ==
    TakeIns[policy_asset] - MapGet(outputs(call.maker_output, Selected), policy_asset)
        - TakeEstimate

\* C36: in liquidex_take, once liquidex_needs has returned empty, no u64
\* subtraction of liquidex_changes or liquidex_fee underflows, and the fee
\* placed in the fee output is the estimated fee plus the policy residual
\* that was too small for a change: estimated_fee <= fee <= estimated_fee
\* + DUST_VALUE.
C36_TakeArithmetic ==
    /\ [](call.op = "liquidex_take" /\ call.pc = "changes" =>
            \A a \in DOMAIN TakeIns :
                /\ TakeIns[a] >= MapGet(TakeOuts, a)
                /\ a = policy_asset => TakeIns[a] - MapGet(TakeOuts, a) >= TakeEstimate)
    /\ [](/\ call.op = "liquidex_take" /\ call.pc = "fee"
          /\ policy_asset \in DOMAIN TakeIns \cap DOMAIN TakeOuts
          => TakeIns[policy_asset] >= TakeOuts[policy_asset])
    /\ [][call.op = "liquidex_take" /\ call.pc = "fee" /\ call'.pc = "blind" =>
            /\ call'.fee_val
                  = TakeEstimate + (IF PolicyResidual > DUST_VALUE THEN 0 ELSE PolicyResidual)
            /\ TakeEstimate <= call'.fee_val
            /\ call'.fee_val <= TakeEstimate + DUST_VALUE
            /\ call'.plain.output[Len(call'.plain.output)]
                  = FeeTxOut(call'.fee_val, policy_asset)]_vars

C36_Witness ==
    /\ call.op = "liquidex_take" /\ call.pc = "blind"
    /\ TakeEstimate > 0
    /\ call.fee_val > TakeEstimate

C36_WitnessChange ==
    /\ call.op = "liquidex_take" /\ call.pc = "blind"
    /\ call.fee_val = TakeEstimate
    /\ \E k \in DOMAIN call.changes : call.changes[k][1] = policy_asset

(***************************************************************************)
(* The external index                                                      *)
(***************************************************************************)
\* The operation of the frame has been issued its receive address.
HasIssued ==
    \/ call.op = "get_address" /\ call.pc = "done"
    \/ call.op = "liquidex_make" /\ call.pc = "lock"
    \/ call.op = "liquidex_take" /\ Len(call.tx.output) >= 2

\* The address issued: returned by get_address, kept by liquidex_make, paid
\* by the receive output of liquidex_take.
IssuedScript ==
    IF call.op = "liquidex_take" THEN call.tx.output[2].script_pubkey
    ELSE call.ret.script_pubkey

\* The step issues an address to the operation of the frame.
Issues == ~HasIssued /\ HasIssued'

\* C37: a call of get_address (alone, or from liquidex_make or
\* liquidex_take) increments indexes.external by exactly one and obtains
\* the address of path [0, new index]; with another thread calling
\* get_address between the steps of the operation, every increment is by
\* one, the index never decreases, and the index the operation obtained is
\* never obtained by a later call.
C37_ExternalIndex ==
    /\ [][/\ store'.external \in {store.external, store.external + 1}
          /\ Issues =>
                /\ store'.external = store.external + 1
                /\ IssuedScript' = p2shwpkh_script(<<0, store'.external>>)
          /\ (HasIssued /\ HasIssued' /\ store'.external # store.external) =>
                /\ IssuedScript' = IssuedScript
                /\ IssuedScript[4] < store'.external]_vars
    /\ [](HasIssued => IssuedScript[3] = 0 /\ IssuedScript[4] \in 1 .. store.external)

C37_Witness ==
    /\ call.op = "liquidex_take" /\ HasIssued
    /\ IssuedScript[4] = 2
    /\ store.external = 3

C37_WitnessMake ==
    /\ call.op = "liquidex_make" /\ HasIssued
    /\ IssuedScript[4] < store.external

(***************************************************************************)
(* What the operations change in the store                                 *)
(***************************************************************************)
\* C38: create_tx and sign_with_xprv leave the store as it is at every
\* step, whether they succeed or fail; liquidex_make and liquidex_take
\* change it only at the step that issues the receive address, and there
\* only indexes.external, by one, whatever the call returns afterwards; no
\* step changes indexes.internal, so the changes of a build repeated on the
\* store derive from the internal indexes the first build used.
C38_StoreFrame ==
    /\ [][/\ call'.op \in {"create_tx", "sign_with_xprv"} => store' = store
          /\ call'.op \in {"liquidex_make", "liquidex_take"} =>
                /\ Issues => store' = [store EXCEPT !.external = @ + 1]
                /\ ~Issues => store' = store
          /\ store'.internal = store.internal]_vars
    /\ [][(ChangesStep /\ call.redo) =>
            /\ store.internal = call.once.internal
            /\ \A k \in 1 .. Len(call'.changes) :
                  call'.tx.output[Len(call.tx.output) + k].script_pubkey
                      = p2shwpkh_script(<<1, call.once.internal + k>>)]_vars
    /\ [](call.redo /\ call.op \in {"liquidex_make", "liquidex_take"} =>
            /\ store.external \in {call.once.external, call.once.external + 1}
            /\ [store EXCEPT !.external = call.once.external] = call.once)

C38_Witness ==
    /\ call.op = "liquidex_take" /\ call.pc = "done"
    /\ call.result = [status |-> "Err", err |-> "InsufficientFunds"]
    /\ store.external = 1

C38_WitnessRebuild ==
    /\ call.op = "liquidex_take" /\ call.redo /\ call.pc = "fee"
    /\ call.changes # <<>>
    /\ store.external = 2

C38_WitnessSign ==
    /\ call.op = "sign_with_xprv" /\ call.pc = "done"
    /\ call.changes # <<>>

(***************************************************************************)
(* WalletCtx::utxos                                                        *)
(***************************************************************************)
\* The outputs utxos is to return: outputs of tracked transactions with an
\* unblinded record, not referenced by an input, not policy-asset dust.
Spendable(cache) ==
    {o \in CacheOutPoints :
        /\ o[1] \in cache.heights
        /\ o[2] < cache.all_txs[o[1]].output
        /\ o \in DOMAIN cache.unblinded
        /\ \A t \in DOMAIN cache.all_txs : o \notin cache.all_txs[t].input
        /\ ~(cache.unblinded[o].asset = policy_asset /\ cache.unblinded[o].value < DUST_VALUE)}

\* C39: utxos returns exactly the outputs of tracked transactions that have
\* an unblinded record, are not referenced as spent and are not policy-asset
\* outputs below DUST_VALUE, each once, sorted by descending value; every
\* element is unspent and carries the unblinded secrets of the store.
C39_Utxos ==
    (probe.fn = "utxos" /\ probe.stage = "returned" /\ probe.result.ok) =>
        LET txos == probe.result.val
            cache == probe.cache
        IN  /\ {txos[k].outpoint : k \in DOMAIN txos} = Spendable(cache)
            /\ \A j, k \in DOMAIN txos : j # k => txos[j].outpoint # txos[k].outpoint
            /\ \A k \in 1 .. Len(txos) - 1 :
                  txos[k].unblinded.value >= txos[k + 1].unblinded.value
            /\ \A k \in DOMAIN txos :
                  /\ txos[k].outpoint \notin spent(cache)
                  /\ txos[k].outpoint \in DOMAIN cache.unblinded
                  /\ txos[k].unblinded = cache.unblinded[txos[k].outpoint]

C39_Witness ==
    /\ probe.fn = "utxos" /\ probe.stage = "returned" /\ probe.result.ok
    /\ Len(probe.result.val) = 1
    /\ probe.result.val[1].outpoint = <<1, 1>>
    /\ DOMAIN probe.cache.unblinded = CacheOutPoints
    /\ probe.cache.unblinded[<<2, 0>>] = [asset |-> "LBTC", value |-> DUST_VALUE - 1]
    /\ spent(probe.cache) = {<<1, 0>>}

C39_WitnessSorted ==
    /\ probe.fn = "utxos" /\ probe.stage = "returned" /\ probe.result.ok
    /\ Len(probe.result.val) = 3
    /\ probe.result.val[1].outpoint = <<2, 0>>
    /\ probe.result.val[3].unblinded.value < 17

(***************************************************************************)
(* Config::policy_asset_id                                                 *)
(***************************************************************************)
\* C40: the policy asset is taken from the configuration only on regtest:
\* for a Config for which network() returns Liquid, policy_asset_id, when
\* it succeeds, returns the constant asset of Liquid; and a Config with
\* liquid = false yields no policy asset.
C40_PolicyAsset ==
    (probe.fn = "policy_asset_id" /\ probe.stage = "returned") =>
        /\ (/\ probe.network = [status |-> "Ok", network |-> "Liquid"]
            /\ probe.result.ok)
               => probe.result.val = <<"bin", LIQUID_POLICY_ASSET_STR>>
        /\ ~probe.config.liquid => ~probe.result.ok

====
